---- MODULE Spec2Model ----
(***************************************************************************)
(* Model of protoc-prebuilt: the init entry point (src/src/init.rs), the   *)
(* install protocol (src/src/install.rs), the override resolver            *)
(* (src/src/force.rs) and the pure helpers of src/src/version.rs and       *)
(* src/src/path.rs.                                                        *)
(*                                                                         *)
(* A Rust string is a sequence of one-character strings, so that           *)
(* contains / starts_with / split_once / format! are computed and not      *)
(* assumed.  A path is a sequence of components, each component a string.  *)
(***************************************************************************)
EXTENDS Integers, Sequences, FiniteSets, TLC

VARIABLES
  OS,        \* std::env::consts::OS of the build
  ARCH,      \* std::env::consts::ARCH of the build
  env,       \* the process environment variables init reads
  fs,        \* the filesystem: path -> [kind, content]
  call       \* per caller: position in init/install, locals and its trace

vars == <<OS, ARCH, env, fs, call>>

----------------------------------------------------------------------------
(* str primitives                                                          *)

\* str::starts_with
StartsWith(s, pre) ==
  /\ Len(pre) <= Len(s)
  /\ SubSeq(s, 1, Len(pre)) = pre

\* positions at which sub occurs in s
Occurrences(s, sub) ==
  { i \in 1..(Len(s) - Len(sub) + 1) : SubSeq(s, i, i + Len(sub) - 1) = sub }

\* str::contains
Contains(s, sub) == Occurrences(s, sub) # {}

\* the least element of a non-empty set of integers
Min(S) == CHOOSE i \in S : \A j \in S : i <= j

\* str::split_once(..).unwrap(): the parts before and after the FIRST occurrence
SplitOnce(s, sub) ==
  LET i == Min(Occurrences(s, sub))
  IN  <<SubSeq(s, 1, i - 1), SubSeq(s, i + Len(sub), Len(s))>>

\* str::get(0..4): the first four bytes, or None (here <<>>) when shorter
Get0to4(s) == IF Len(s) >= 4 THEN SubSeq(s, 1, 4) ELSE <<>>

IsWhitespace(c) == c \in {" ", "\n", "\t", "\r"}

\* str::trim: strip leading and trailing whitespace
RECURSIVE TrimStart(_)
TrimStart(s) ==
  IF s # <<>> /\ IsWhitespace(Head(s)) THEN TrimStart(Tail(s)) ELSE s

RECURSIVE TrimEnd(_)
TrimEnd(s) ==
  IF s # <<>> /\ IsWhitespace(s[Len(s)]) THEN TrimEnd(SubSeq(s, 1, Len(s) - 1)) ELSE s

Trim(s) == TrimEnd(TrimStart(s))

\* str::replace(from, ""): delete every non-overlapping occurrence, left to right
RECURSIVE Remove(_, _)
Remove(s, from) ==
  IF s = <<>> THEN <<>>
  ELSE IF StartsWith(s, from) THEN Remove(SubSeq(s, Len(from) + 1, Len(s)), from)
  ELSE <<Head(s)>> \o Remove(Tail(s), from)

----------------------------------------------------------------------------
(* src/src/version.rs                                                      *)

\* prepare_asset_version without the exception of "3.7.0rc1"
prepare_asset_version_no_rc1_exception(version) ==
  IF ~Contains(version, <<"r","c">>) THEN version
  ELSE IF version = <<"3",".","7",".","0","-","r","c",".","3">> THEN <<"3",".","7",".","0","-","r","c","-","3">>
  ELSE IF version = <<"3",".","7",".","0","r","c","2">> THEN <<"3",".","7",".","0","-","r","c","-","2">>
  ELSE IF version = <<"3",".","2",".","0","r","c","2">> THEN <<"3",".","2",".","0","r","c","2">>
  ELSE LET parts == SplitOnce(version, <<"r","c">>)
       IN  parts[1] \o <<"r","c","-">> \o parts[2]

\* prepare_asset_version without the exception of "3.7.0-rc.3"
prepare_asset_version_no_rc_dot_exception(version) ==
  IF ~Contains(version, <<"r","c">>) THEN version
  ELSE IF version = <<"3",".","7",".","0","r","c","2">> THEN <<"3",".","7",".","0","-","r","c","-","2">>
  ELSE IF version = <<"3",".","7",".","0","r","c","1">> THEN <<"3",".","7",".","0","-","r","c","1">>
  ELSE IF version = <<"3",".","2",".","0","r","c","2">> THEN <<"3",".","2",".","0","r","c","2">>
  ELSE LET parts == SplitOnce(version, <<"r","c">>)
       IN  parts[1] \o <<"r","c","-">> \o parts[2]

prepare_asset_version(version) ==
  IF ~Contains(version, <<"r","c">>) THEN version
  ELSE IF version = <<"3",".","7",".","0","-","r","c",".","3">> THEN <<"3",".","7",".","0","-","r","c","-","3">>
  ELSE IF version = <<"3",".","7",".","0","r","c","2">> THEN <<"3",".","7",".","0","-","r","c","-","2">>
  ELSE IF version = <<"3",".","7",".","0","r","c","1">> THEN <<"3",".","7",".","0","-","r","c","1">>
  ELSE IF version = <<"3",".","2",".","0","r","c","2">> THEN <<"3",".","2",".","0","r","c","2">>
  ELSE LET parts == SplitOnce(version, <<"r","c">>)
       IN  parts[1] \o <<"r","c","-">> \o parts[2]

\* compare_versions without the rule of the 21.* versions
compare_versions_no_21_rule(required, returned) ==
  \* Protobuf errors
  IF \/ (required = <<"3",".","0",".","2">> /\ returned = <<"3",".","0",".","0">>)
     \/ (required = <<"3",".","1","0",".","0","-","r","c","1">> /\ returned = <<"3","0",".","1","0",".","0">>)
     \/ (required = <<"3",".","1","2",".","2">> /\ returned = <<"3",".","1","2",".","1">>)
     \/ (required = <<"3",".","1","9",".","0","-","r","c","2">> /\ returned = <<"3",".","1","9",".","0","-","r","c","1">>)
     \/ (returned = <<>> /\ (required = <<"2","1",".","0","-","r","c","1">> \/ required = <<"2","1",".","0","-","r","c","2">>))
  THEN TRUE
  \* Non default `rc` versions names
  ELSE IF \/ (required = <<"3",".","2",".","0","r","c","2">> /\ returned = <<"3",".","2",".","0">>)
          \/ /\ \/ required = <<"3",".","7",".","0","r","c","1">>
                \/ required = <<"3",".","7",".","0","r","c","2">>
                \/ required = <<"3",".","7",".","0","-","r","c",".","3">>
             /\ returned = <<"3",".","7",".","0">>
  THEN TRUE
  \* Old `rc` versions
  ELSE IF /\ Contains(required, <<"-","r","c">>)
          /\ \/ StartsWith(required, <<"3",".","8",".">>)
             \/ StartsWith(required, <<"3",".","9",".">>)
             \/ StartsWith(required, <<"3",".","1","0",".">>)
             \/ StartsWith(required, <<"3",".","1","1",".">>)
             \/ StartsWith(required, <<"3",".","1","2",".">>)
             \/ StartsWith(required, <<"3",".","1","3",".">>)
  THEN SplitOnce(required, <<"-","r","c">>)[1] = returned
  \* Alpha and beta versions
  ELSE IF /\ required \in { <<"3",".","0",".","0","-","a","l","p","h","a","-","1">>, <<"3",".","0",".","0","-","a","l","p","h","a","-","2">>, <<"3",".","0",".","0","-","a","l","p","h","a","-","3">>,
                            <<"3",".","0",".","0","-","b","e","t","a","-","1">>, <<"3",".","0",".","0","-","b","e","t","a","-","2">>,
                            <<"3",".","0",".","0","-","b","e","t","a","-","3">>, <<"3",".","0",".","0","-","b","e","t","a","-","4">> }
          /\ returned = <<"3",".","0",".","0">>
  THEN TRUE
  ELSE required = returned

\* compare_versions with the old `rc` range running one minor version too far (3.14.)
compare_versions_old_rc_until_3_14(required, returned) ==
  \* Protobuf errors
  IF \/ (required = <<"3",".","0",".","2">> /\ returned = <<"3",".","0",".","0">>)
     \/ (required = <<"3",".","1","0",".","0","-","r","c","1">> /\ returned = <<"3","0",".","1","0",".","0">>)
     \/ (required = <<"3",".","1","2",".","2">> /\ returned = <<"3",".","1","2",".","1">>)
     \/ (required = <<"3",".","1","9",".","0","-","r","c","2">> /\ returned = <<"3",".","1","9",".","0","-","r","c","1">>)
     \/ (returned = <<>> /\ (required = <<"2","1",".","0","-","r","c","1">> \/ required = <<"2","1",".","0","-","r","c","2">>))
  THEN TRUE
  \* Non default `rc` versions names
  ELSE IF \/ (required = <<"3",".","2",".","0","r","c","2">> /\ returned = <<"3",".","2",".","0">>)
          \/ /\ \/ required = <<"3",".","7",".","0","r","c","1">>
                \/ required = <<"3",".","7",".","0","r","c","2">>
                \/ required = <<"3",".","7",".","0","-","r","c",".","3">>
             /\ returned = <<"3",".","7",".","0">>
  THEN TRUE
  \* Old `rc` versions
  ELSE IF /\ Contains(required, <<"-","r","c">>)
          /\ \/ StartsWith(required, <<"3",".","8",".">>)
             \/ StartsWith(required, <<"3",".","9",".">>)
             \/ StartsWith(required, <<"3",".","1","0",".">>)
             \/ StartsWith(required, <<"3",".","1","1",".">>)
             \/ StartsWith(required, <<"3",".","1","2",".">>)
             \/ StartsWith(required, <<"3",".","1","3",".">>)
             \/ StartsWith(required, <<"3",".","1","4",".">>)
  THEN SplitOnce(required, <<"-","r","c">>)[1] = returned
  \* 21.* versions
  ELSE IF StartsWith(required, <<"2","1",".">>)
  THEN <<"3",".">> \o required = returned
  \* Alpha and beta versions
  ELSE IF /\ required \in { <<"3",".","0",".","0","-","a","l","p","h","a","-","1">>, <<"3",".","0",".","0","-","a","l","p","h","a","-","2">>, <<"3",".","0",".","0","-","a","l","p","h","a","-","3">>,
                            <<"3",".","0",".","0","-","b","e","t","a","-","1">>, <<"3",".","0",".","0","-","b","e","t","a","-","2">>,
                            <<"3",".","0",".","0","-","b","e","t","a","-","3">>, <<"3",".","0",".","0","-","b","e","t","a","-","4">> }
          /\ returned = <<"3",".","0",".","0">>
  THEN TRUE
  ELSE required = returned

compare_versions(required, returned) ==
  \* Protobuf errors
  IF \/ (required = <<"3",".","0",".","2">> /\ returned = <<"3",".","0",".","0">>)
     \/ (required = <<"3",".","1","0",".","0","-","r","c","1">> /\ returned = <<"3","0",".","1","0",".","0">>)
     \/ (required = <<"3",".","1","2",".","2">> /\ returned = <<"3",".","1","2",".","1">>)
     \/ (required = <<"3",".","1","9",".","0","-","r","c","2">> /\ returned = <<"3",".","1","9",".","0","-","r","c","1">>)
     \/ (returned = <<>> /\ (required = <<"2","1",".","0","-","r","c","1">> \/ required = <<"2","1",".","0","-","r","c","2">>))
  THEN TRUE
  \* Non default `rc` versions names
  ELSE IF \/ (required = <<"3",".","2",".","0","r","c","2">> /\ returned = <<"3",".","2",".","0">>)
          \/ /\ \/ required = <<"3",".","7",".","0","r","c","1">>
                \/ required = <<"3",".","7",".","0","r","c","2">>
                \/ required = <<"3",".","7",".","0","-","r","c",".","3">>
             /\ returned = <<"3",".","7",".","0">>
  THEN TRUE
  \* Old `rc` versions
  ELSE IF /\ Contains(required, <<"-","r","c">>)
          /\ \/ StartsWith(required, <<"3",".","8",".">>)
             \/ StartsWith(required, <<"3",".","9",".">>)
             \/ StartsWith(required, <<"3",".","1","0",".">>)
             \/ StartsWith(required, <<"3",".","1","1",".">>)
             \/ StartsWith(required, <<"3",".","1","2",".">>)
             \/ StartsWith(required, <<"3",".","1","3",".">>)
  THEN SplitOnce(required, <<"-","r","c">>)[1] = returned
  \* 21.* versions
  ELSE IF StartsWith(required, <<"2","1",".">>)
  THEN <<"3",".">> \o required = returned
  \* Alpha and beta versions
  ELSE IF /\ required \in { <<"3",".","0",".","0","-","a","l","p","h","a","-","1">>, <<"3",".","0",".","0","-","a","l","p","h","a","-","2">>, <<"3",".","0",".","0","-","a","l","p","h","a","-","3">>,
                            <<"3",".","0",".","0","-","b","e","t","a","-","1">>, <<"3",".","0",".","0","-","b","e","t","a","-","2">>,
                            <<"3",".","0",".","0","-","b","e","t","a","-","3">>, <<"3",".","0",".","0","-","b","e","t","a","-","4">> }
          /\ returned = <<"3",".","0",".","0">>
  THEN TRUE
  ELSE required = returned

\* Result<String, Error>: <<"Ok", name>> or <<"Err", "NotProvidedPlatform">>
NotProvidedPlatform == <<"Err", "NotProvidedPlatform">>

\* the `asset_os` match of get_protoc_asset_name; <<>> is the `_ =>` arm
asset_os(os) ==
  IF os = <<"l","i","n","u","x">> THEN <<"l","i","n","u","x">>
  ELSE IF os = <<"m","a","c","o","s">> THEN <<"o","s","x">>
  ELSE IF os = <<"w","i","n","d","o","w","s">> THEN <<"w","i","n">>
  ELSE <<>>

\* asset_arch with the "s390x" spelling kept one minor version too long (up to 3.16)
asset_arch_s390x_until_3_16(version, os, arch) ==
  IF os = <<"l","i","n","u","x">> THEN
    IF arch = <<"a","a","r","c","h","6","4">> THEN <<"a","a","r","c","h","_","6","4">>
    ELSE IF arch = <<"p","o","w","e","r","p","c","6","4">> THEN <<"p","p","c","l","e","_","6","4">>
    ELSE IF arch = <<"s","3","9","0","x">> THEN
      IF Get0to4(version) \in { <<"3",".","1","0">>, <<"3",".","1","1">> } THEN <<"s","3","9","0","x","_","6","4">>
      ELSE IF Get0to4(version) \in { <<"3",".","1","2">>, <<"3",".","1","3">>, <<"3",".","1","4">>, <<"3",".","1","5">>, <<"3",".","1","6">> }
      THEN <<"s","3","9","0","x">>
      ELSE <<"s","3","9","0","_","6","4">>
    ELSE IF arch = <<"x","8","6">> THEN
      IF version = <<"3",".","0",".","0","-","b","e","t","a","-","4">> THEN <<"x","8","6","-","3","2">> ELSE <<"x","8","6","_","3","2">>
    ELSE IF arch = <<"x","8","6","_","6","4">> THEN <<"x","8","6","_","6","4">>
    ELSE <<>>
  ELSE IF os = <<"m","a","c","o","s">> THEN
    IF arch = <<"a","a","r","c","h","6","4">> THEN <<"a","a","r","c","h","_","6","4">>
    ELSE IF arch = <<"x","8","6">> THEN <<"x","8","6","_","3","2">>
    ELSE IF arch = <<"x","8","6","_","6","4">> THEN <<"x","8","6","_","6","4">>
    ELSE <<>>
  ELSE IF os = <<"w","i","n","d","o","w","s">> THEN
    IF arch = <<"x","8","6">> THEN <<"3","2">>
    ELSE IF arch = <<"x","8","6","_","6","4">> THEN <<"6","4">>
    ELSE <<>>
  ELSE <<>>

\* asset_arch with a name guessed for windows on aarch64
asset_arch_windows_aarch64(version, os, arch) ==
  IF os = <<"l","i","n","u","x">> THEN
    IF arch = <<"a","a","r","c","h","6","4">> THEN <<"a","a","r","c","h","_","6","4">>
    ELSE IF arch = <<"p","o","w","e","r","p","c","6","4">> THEN <<"p","p","c","l","e","_","6","4">>
    ELSE IF arch = <<"s","3","9","0","x">> THEN
      IF Get0to4(version) \in { <<"3",".","1","0">>, <<"3",".","1","1">> } THEN <<"s","3","9","0","x","_","6","4">>
      ELSE IF Get0to4(version) \in { <<"3",".","1","2">>, <<"3",".","1","3">>, <<"3",".","1","4">>, <<"3",".","1","5">> }
      THEN <<"s","3","9","0","x">>
      ELSE <<"s","3","9","0","_","6","4">>
    ELSE IF arch = <<"x","8","6">> THEN
      IF version = <<"3",".","0",".","0","-","b","e","t","a","-","4">> THEN <<"x","8","6","-","3","2">> ELSE <<"x","8","6","_","3","2">>
    ELSE IF arch = <<"x","8","6","_","6","4">> THEN <<"x","8","6","_","6","4">>
    ELSE <<>>
  ELSE IF os = <<"m","a","c","o","s">> THEN
    IF arch = <<"a","a","r","c","h","6","4">> THEN <<"a","a","r","c","h","_","6","4">>
    ELSE IF arch = <<"x","8","6">> THEN <<"x","8","6","_","3","2">>
    ELSE IF arch = <<"x","8","6","_","6","4">> THEN <<"x","8","6","_","6","4">>
    ELSE <<>>
  ELSE IF os = <<"w","i","n","d","o","w","s">> THEN
    IF arch = <<"x","8","6">> THEN <<"3","2">>
    ELSE IF arch = <<"x","8","6","_","6","4">> THEN <<"6","4">>
    ELSE IF arch = <<"a","a","r","c","h","6","4">> THEN <<"a","r","m","6","4">>
    ELSE <<>>
  ELSE <<>>

\* the `asset_arch` match of get_protoc_asset_name; <<>> is a `_ =>` error arm
asset_arch(version, os, arch) ==
  IF os = <<"l","i","n","u","x">> THEN
    IF arch = <<"a","a","r","c","h","6","4">> THEN <<"a","a","r","c","h","_","6","4">>
    ELSE IF arch = <<"p","o","w","e","r","p","c","6","4">> THEN <<"p","p","c","l","e","_","6","4">>
    ELSE IF arch = <<"s","3","9","0","x">> THEN
      IF Get0to4(version) \in { <<"3",".","1","0">>, <<"3",".","1","1">> } THEN <<"s","3","9","0","x","_","6","4">>
      ELSE IF Get0to4(version) \in { <<"3",".","1","2">>, <<"3",".","1","3">>, <<"3",".","1","4">>, <<"3",".","1","5">> }
      THEN <<"s","3","9","0","x">>
      ELSE <<"s","3","9","0","_","6","4">>
    ELSE IF arch = <<"x","8","6">> THEN
      IF version = <<"3",".","0",".","0","-","b","e","t","a","-","4">> THEN <<"x","8","6","-","3","2">> ELSE <<"x","8","6","_","3","2">>
    ELSE IF arch = <<"x","8","6","_","6","4">> THEN <<"x","8","6","_","6","4">>
    ELSE <<>>
  ELSE IF os = <<"m","a","c","o","s">> THEN
    IF arch = <<"a","a","r","c","h","6","4">> THEN <<"a","a","r","c","h","_","6","4">>
    ELSE IF arch = <<"x","8","6">> THEN <<"x","8","6","_","3","2">>
    ELSE IF arch = <<"x","8","6","_","6","4">> THEN <<"x","8","6","_","6","4">>
    ELSE <<>>
  ELSE IF os = <<"w","i","n","d","o","w","s">> THEN
    IF arch = <<"x","8","6">> THEN <<"3","2">>
    ELSE IF arch = <<"x","8","6","_","6","4">> THEN <<"6","4">>
    ELSE <<>>
  ELSE <<>>

os_arch_delimiter(os) == IF os = <<"w","i","n","d","o","w","s">> THEN <<>> ELSE <<"-">>

\* get_protoc_asset_name with the os/arch delimiter also put between version and os
get_protoc_asset_name_one_delimiter(version, os, arch) ==
  IF asset_os(os) = <<>> THEN NotProvidedPlatform
  ELSE IF asset_arch(version, os, arch) = <<>> THEN NotProvidedPlatform
  ELSE <<"Ok", <<"p","r","o","t","o","c","-">> \o prepare_asset_version(version) \o os_arch_delimiter(os)
                 \o asset_os(os) \o os_arch_delimiter(os) \o asset_arch(version, os, arch)>>

get_protoc_asset_name(version, os, arch) ==
  IF asset_os(os) = <<>> THEN NotProvidedPlatform
  ELSE IF asset_arch(version, os, arch) = <<>> THEN NotProvidedPlatform
  ELSE <<"Ok", <<"p","r","o","t","o","c","-">> \o prepare_asset_version(version) \o <<"-">> \o asset_os(os)
                 \o os_arch_delimiter(os) \o asset_arch(version, os, arch)>>

----------------------------------------------------------------------------
(* src/src/path.rs                                                         *)

\* is_binary_in_root taken from "before 3.0.0-beta-4" (path.rs:6): beta-4 left out
is_binary_in_root_before_beta_4(version) ==
  version \in { <<"2",".","4",".","1">>, <<"2",".","5",".","0">>, <<"2",".","6",".","0">>, <<"2",".","6",".","1">>,
                <<"3",".","0",".","0","-","a","l","p","h","a","-","1">>, <<"3",".","0",".","0","-","a","l","p","h","a","-","2">>, <<"3",".","0",".","0","-","a","l","p","h","a","-","3">>,
                <<"3",".","0",".","0","-","b","e","t","a","-","1">>, <<"3",".","0",".","0","-","b","e","t","a","-","2">>, <<"3",".","0",".","0","-","b","e","t","a","-","3">> }

is_binary_in_root(version) ==
  version \in { <<"2",".","4",".","1">>, <<"2",".","5",".","0">>, <<"2",".","6",".","0">>, <<"2",".","6",".","1">>,
                <<"3",".","0",".","0","-","a","l","p","h","a","-","1">>, <<"3",".","0",".","0","-","a","l","p","h","a","-","2">>, <<"3",".","0",".","0","-","a","l","p","h","a","-","3">>,
                <<"3",".","0",".","0","-","b","e","t","a","-","1">>, <<"3",".","0",".","0","-","b","e","t","a","-","2">>,
                <<"3",".","0",".","0","-","b","e","t","a","-","3">>, <<"3",".","0",".","0","-","b","e","t","a","-","4">> }

\* PathBuf::push of a relative component, PathBuf::pop
Push(path, component) == Append(path, component)
Pop(path) == IF path = <<>> THEN path ELSE SubSeq(path, 1, Len(path) - 1)

\* format!("protoc{}", match OS { "windows" => ".exe", _ => "" })
binary_file_name == <<"p","r","o","t","o","c">> \o (IF OS = <<"w","i","n","d","o","w","s">> THEN <<".","e","x","e">> ELSE <<>>)

get_bin_path(version, protoc_out_dir) ==
  LET dir == IF ~is_binary_in_root(version) THEN Push(protoc_out_dir, <<"b","i","n">>)
             ELSE protoc_out_dir
  IN  Push(dir, binary_file_name)

get_include_path(version, protoc_bin) ==
  LET dir == Pop(protoc_bin)
  IN  IF ~is_binary_in_root(version) THEN Push(Pop(dir), <<"i","n","c","l","u","d","e">>) ELSE dir

----------------------------------------------------------------------------
(* The environment of a call                                               *)

\* Result<String, VarError> of std::env::var
NotPresent == <<"Err", "NotPresent">>
Set(value) == <<"Ok", value>>
IsOk(result) == result[1] = "Ok"

\* the paths the environment variables point at
OutRoot == <<<<"o","u","t">>>>
ForceBinPath == <<<<"o","p","t">>, <<"p","r","o","t","o","c">>>>
ForceIncludePath == <<<<"o","p","t">>, <<"i","n","c","l","u","d","e">>>>

\* requested versions: a "21." version in the bin/ layout, a legacy one in the root layout
Versions == { <<"2","1",".","0">>, <<"2",".","4",".","1">> }

\* (OS, ARCH) of the builds considered: a provided platform and one that is not
Platforms == { <<<<"l","i","n","u","x">>, <<"x","8","6","_","6","4">>>>, <<<<"f","r","e","e","b","s","d">>, <<"x","8","6","_","6","4">>>> }

\* values of PROTOC_PREBUILT_NOT_CHECK_VERSION
ToggleValues == { NotPresent, Set(<<>>), Set(<<"o","f","f">>), Set(<<"1">>) }

\* helpers.rs: "", "0", "no", "off", "false" reduce to false
str_to_bool(value) ==
  value \notin { <<>>, <<"0">>, <<"n","o">>, <<"o","f","f">>, <<"f","a","l","s","e">> }

var_bool(result) == IF IsOk(result) THEN str_to_bool(result[2]) ELSE FALSE

----------------------------------------------------------------------------
(* The filesystem: a function from the existing paths to [kind, content]   *)

Dir == [kind |-> "dir", content |-> "none"]
File(content) == [kind |-> "file", content |-> content]
Other == [kind |-> "other", content |-> "none"]

\* Path::exists / fs::metadata(..).is_ok()
Exists(path) == path \in DOMAIN fs

is_dir(path) == fs[path].kind = "dir"
is_file(path) == fs[path].kind = "file"

\* the filesystem f with path set to entry, or with path removed
WithEntry(f, path, entry) ==
  [q \in DOMAIN f \cup {path} |-> IF q = path THEN entry ELSE f[q]]
Without(f, path) == [q \in DOMAIN f \ {path} |-> f[q]]

RECURSIVE WithEntries(_, _, _)
WithEntries(f, paths, entry) ==
  IF paths = {} THEN f
  ELSE LET q == CHOOSE x \in paths : TRUE
       IN  WithEntries(WithEntry(f, q, entry), paths \ {q}, entry)

----------------------------------------------------------------------------
(* src/src/force.rs                                                        *)

ForcePath(message, name, path) ==
  [ok |-> FALSE, err |-> "ForcePath", message |-> message, variable |-> name, path |-> path]

\* Result<Option<PathBuf>, Error>: <<"Ok", "None">>, <<"Ok", "Some", path>> or <<"Err", error>>
None == <<"Ok", "None">>
Some(path) == <<"Ok", "Some", path>>
Err(error) == <<"Err", error>>

\* check_force_bin without the is_dir test
check_force_bin_no_dir_test(env_var_value) ==
  IF IsOk(env_var_value) THEN
    LET force_protoc_path == env_var_value[2] IN
    IF ~Exists(force_protoc_path)
    THEN Err(ForcePath("nothing exists", "PROTOC_PREBUILT_FORCE_PROTOC_PATH", force_protoc_path))
    ELSE Some(force_protoc_path)
  ELSE None

check_force_bin(env_var_value) ==
  IF IsOk(env_var_value) THEN
    LET force_protoc_path == env_var_value[2] IN
    IF ~Exists(force_protoc_path)
    THEN Err(ForcePath("nothing exists", "PROTOC_PREBUILT_FORCE_PROTOC_PATH", force_protoc_path))
    ELSE IF is_dir(force_protoc_path)
    THEN Err(ForcePath("directory found", "PROTOC_PREBUILT_FORCE_PROTOC_PATH", force_protoc_path))
    ELSE Some(force_protoc_path)
  ELSE None

check_force_include(env_var_value) ==
  IF IsOk(env_var_value) THEN
    LET force_include_path == env_var_value[2] IN
    IF ~Exists(force_include_path)
    THEN Err(ForcePath("nothing exists", "PROTOC_PREBUILT_FORCE_INCLUDE_PATH", force_include_path))
    ELSE IF is_file(force_include_path)
    THEN Err(ForcePath("file found", "PROTOC_PREBUILT_FORCE_INCLUDE_PATH", force_include_path))
    ELSE Some(force_include_path)
  ELSE None

get_force_bin == check_force_bin(env.PROTOC_PREBUILT_FORCE_PROTOC_PATH)

get_force_include == check_force_include(env.PROTOC_PREBUILT_FORCE_INCLUDE_PATH)

----------------------------------------------------------------------------
(* Collaborators: the remote, the archive, the probed binary               *)

\* what request_with_token can return: Ok(response) with one of `bodies`, a status error
\* with its code, its body text and whether that body can be read, or a transport error
Responses(bodies) ==
  { [type |-> "Ok", body |-> b] : b \in bodies }
  \cup { [type |-> "Status", code |-> 404, text |-> "Not Found", readable |-> TRUE],
         [type |-> "Status", code |-> 403, text |-> "rate limit", readable |-> TRUE],
         [type |-> "Status", code |-> 500, text |-> "server error", readable |-> TRUE],
         [type |-> "Status", code |-> 500, text |-> "server error", readable |-> FALSE] }
  \cup { [type |-> "Transport"] }

\* the version strings a probed binary reports about itself
Reported == { <<"3",".","2","1",".","0">>, <<"2",".","4",".","1">>, <<>> }

\* how a binary prints the version it reports: "libprotoc <version>\n", or the bare
\* version; a binary that reports no version prints nothing (version.rs:54-55)
Formats == {"libprotoc", "bare"}
Stdout(reported, format) ==
  IF reported = <<>> THEN <<>>
  ELSE IF format = "libprotoc"
  THEN <<"l","i","b","p","r","o","t","o","c"," ">> \o reported \o <<"\n">>
  ELSE reported

\* what running the binary with "--version" can give: the spawn fails, or it exits with
\* a status and a stdout that is valid UTF-8 text (of a reported version) or is not
NoOutput == [spawned |-> FALSE]
Outputs ==
  { NoOutput }
  \cup { [spawned |-> TRUE, success |-> FALSE, utf8 |-> TRUE, reported |-> <<>>, stdout |-> <<>>] }
  \cup { [spawned |-> TRUE, success |-> TRUE, utf8 |-> TRUE, reported |-> r,
          stdout |-> Stdout(r, f)] : r \in Reported, f \in Formats }
  \cup { [spawned |-> TRUE, success |-> TRUE, utf8 |-> FALSE, reported |-> <<>>, stdout |-> <<>>] }

\* the entries the release archive of a version unpacks into the install directory
\* (the binary where get_bin_path looks for it, the include directory beside it)
ArchiveEntries(version, protoc_out_dir) ==
  LET protoc_bin == get_bin_path(version, protoc_out_dir)
  IN  [dirs  |-> {protoc_out_dir, Pop(protoc_bin), get_include_path(version, protoc_bin)},
       files |-> {protoc_bin}]

\* ZipArchive::extract run to completion
Extracted(f, version, protoc_out_dir) ==
  LET entries == ArchiveEntries(version, protoc_out_dir)
  IN  WithEntries(WithEntries(f, entries.dirs, Dir), entries.files, File("protoc"))

----------------------------------------------------------------------------
(* src/src/init.rs and src/src/install.rs, one action per fallible step    *)

NoLocals ==
  [protoc_asset_name |-> <<>>, protoc_out_dir |-> <<>>, protoc_bin |-> <<>>,
   response |-> "none", output |-> NoOutput]

Idle(f) ==
  [pc |-> "idle", version |-> <<>>, locals |-> NoLocals,
   result |-> [ok |-> FALSE, err |-> "none", at |-> "idle"],
   \* the trace of the call: its steps, the remote's answers, the probe's output and
   \* the filesystem it started from
   log |-> <<>>, responses |-> <<>>, probe |-> NoOutput, fs0 |-> f]

Running(p) == call[p].pc \notin {"idle", "done"}

\* the temporary archive file of the call: out_dir.join(asset name + ".zip")
protoc_asset_file_path(p) ==
  Push(OutRoot, call[p].locals.protoc_asset_name \o <<".","z","i","p">>)

\* the call record c moved on to the step `pc`, having done `events`, with its locals changed
Moved(c, pc, events, locals) ==
  [c EXCEPT !.pc = pc, !.log = @ \o events, !.locals = locals]

\* the call record c returned `result` from its current step, having done `events`;
\* its locals are dropped
Finished(c, events, result) ==
  [c EXCEPT !.pc = "done", !.log = @ \o events, !.locals = NoLocals,
            !.result = [at |-> c.pc] @@ result]

\* the call record c with one more answer of the remote
Received(c, response) == [c EXCEPT !.responses = Append(@, response)]

Goto(p, pc, events, locals) ==
  call' = [call EXCEPT ![p] = Moved(call[p], pc, events, locals)]

Return(p, events, result) ==
  call' = [call EXCEPT ![p] = Finished(call[p], events, result)]

Error(err) == [ok |-> FALSE, err |-> err]

\* init is called
Start(p, version) ==
  /\ ~Running(p)
  /\ call' = [call EXCEPT ![p] = [Idle(fs) EXCEPT !.pc = "get_force_bin", !.version = version]]
  /\ UNCHANGED <<OS, ARCH, env, fs>>

\* init with the `?` on get_force_bin dropped: an invalid override counts as none
GetForceBin_error_ignored(p) ==
  /\ call[p].pc = "get_force_bin"
  /\ LET forced == get_force_bin IN
     IF forced[1] = "Err" \/ forced = None
     THEN Goto(p, "out_dir", <<"get_force_bin">>, call[p].locals)
     ELSE Goto(p, "metadata", <<"get_force_bin">>,
               [call[p].locals EXCEPT !.protoc_bin = forced[3]])
  /\ UNCHANGED <<OS, ARCH, env, fs>>

\* init computing the installed binary path even when the override gives one
GetForceBin_still_installs(p) ==
  /\ call[p].pc = "get_force_bin"
  /\ LET forced == get_force_bin IN
     IF forced[1] = "Err" THEN Return(p, <<"get_force_bin">>, forced[2])
     ELSE Goto(p, "out_dir", <<"get_force_bin">>, call[p].locals)
  /\ UNCHANGED <<OS, ARCH, env, fs>>

\* init.rs:27 get_force_bin()?
GetForceBin(p) ==
  /\ call[p].pc = "get_force_bin"
  /\ LET forced == get_force_bin IN
     IF forced[1] = "Err" THEN Return(p, <<"get_force_bin">>, forced[2])
     ELSE IF forced = None THEN Goto(p, "out_dir", <<"get_force_bin">>, call[p].locals)
     ELSE Goto(p, "metadata", <<"get_force_bin">>,
               [call[p].locals EXCEPT !.protoc_bin = forced[3]])
  /\ UNCHANGED <<OS, ARCH, env, fs>>

\* init falling back to a default output root when OUT_DIR is not set
OutDir_default_root(p) ==
  /\ call[p].pc = "out_dir"
  /\ LET out_dir == IF IsOk(env.OUT_DIR) THEN env.OUT_DIR[2] ELSE OutRoot
         name == get_protoc_asset_name(call[p].version, OS, ARCH) IN
       IF name[1] = "Err"
       THEN Return(p, <<"var OUT_DIR", "get_protoc_asset_name">>, Error(name[2]))
       ELSE Goto(p, "exists", <<"var OUT_DIR", "get_protoc_asset_name">>,
                 [call[p].locals EXCEPT !.protoc_asset_name = name[2],
                                        !.protoc_out_dir = Push(out_dir, name[2])])
  /\ UNCHANGED <<OS, ARCH, env, fs>>

\* init.rs:28-31 var("OUT_DIR"), get_protoc_asset_name, out_dir.join
OutDir(p) ==
  /\ call[p].pc = "out_dir"
  /\ IF ~IsOk(env.OUT_DIR) THEN Return(p, <<"var OUT_DIR">>, Error("VarError"))
     ELSE LET name == get_protoc_asset_name(call[p].version, OS, ARCH) IN
       IF name[1] = "Err"
       THEN Return(p, <<"var OUT_DIR", "get_protoc_asset_name">>, Error(name[2]))
       ELSE Goto(p, "exists", <<"var OUT_DIR", "get_protoc_asset_name">>,
                 [call[p].locals EXCEPT !.protoc_asset_name = name[2],
                                        !.protoc_out_dir = Push(env.OUT_DIR[2], name[2])])
  /\ UNCHANGED <<OS, ARCH, env, fs>>

\* ExistsCheck with the test dropped: install runs whether or not the directory exists
ExistsCheck_always_install(p) ==
  /\ call[p].pc = "exists"
  /\ Goto(p, "check_version_exists", <<"exists">>, call[p].locals)
  /\ UNCHANGED <<OS, ARCH, env, fs>>

\* ExistsCheck taking the binary, not the directory, for the mark of an installation
ExistsCheck_binary_is_the_mark(p) ==
  /\ call[p].pc = "exists"
  /\ IF Exists(get_bin_path(call[p].version, call[p].locals.protoc_out_dir))
     THEN Goto(p, "get_bin_path", <<"exists">>, call[p].locals)
     ELSE Goto(p, "check_version_exists", <<"exists">>, call[p].locals)
  /\ UNCHANGED <<OS, ARCH, env, fs>>

\* ExistsCheck under a lock on the Install Directory: it waits while another call
\* is installing into the same directory
ExistsCheck_exclusive(p) ==
  /\ call[p].pc = "exists"
  /\ \A q \in DOMAIN call \ {p} :
       \/ call[q].pc \notin {"check_version_exists", "download", "remove_previous", "create",
                             "copy", "zip_new", "extract", "remove_archive"}
       \/ call[q].locals.protoc_out_dir # call[p].locals.protoc_out_dir
  /\ IF Exists(call[p].locals.protoc_out_dir)
     THEN Goto(p, "get_bin_path", <<"exists">>, call[p].locals)
     ELSE Goto(p, "check_version_exists", <<"exists">>, call[p].locals)
  /\ UNCHANGED <<OS, ARCH, env, fs>>

\* init.rs:34 if !protoc_out_dir.exists()
ExistsCheck(p) ==
  /\ call[p].pc = "exists"
  /\ IF Exists(call[p].locals.protoc_out_dir)
     THEN Goto(p, "get_bin_path", <<"exists">>, call[p].locals)
     ELSE Goto(p, "check_version_exists", <<"exists">>, call[p].locals)
  /\ UNCHANGED <<OS, ARCH, env, fs>>

\* the part of check_version_exists and download that reads the answer of the remote:
\* `found` is the error of a 404, `ok` the step that follows a success
Answered(p, event, response, found, ok, locals) ==
  call' = [call EXCEPT ![p] =
    IF response.type = "Ok" THEN Moved(Received(call[p], response), ok, <<event>>, locals)
    ELSE IF response.type = "Status" THEN
      IF response.code = 404
      THEN Finished(Received(call[p], response), <<event>>,
                    [ok |-> FALSE, err |-> found, version |-> call[p].version])
      ELSE IF ~response.readable
      THEN Finished(Received(call[p], response), <<event>>, Error("Io"))
      ELSE Finished(Received(call[p], response), <<event>>,
                    [ok |-> FALSE, err |-> "GitHubApi", code |-> response.code,
                     text |-> response.text])
    ELSE Finished(Received(call[p], response), <<event>>, Error("Ureq"))]

\* Answered with the match of the code applied to `seen` instead of the answer itself
AnsweredAs(p, event, response, seen, found, ok, locals) ==
  call' = [call EXCEPT ![p] =
    IF seen.type = "Ok" THEN Moved(Received(call[p], response), ok, <<event>>, locals)
    ELSE IF seen.type = "Status" THEN
      IF seen.code = 404
      THEN Finished(Received(call[p], response), <<event>>,
                    [ok |-> FALSE, err |-> found, version |-> call[p].version])
      ELSE IF ~seen.readable
      THEN Finished(Received(call[p], response), <<event>>, Error("Io"))
      ELSE Finished(Received(call[p], response), <<event>>,
                    [ok |-> FALSE, err |-> "GitHubApi", code |-> seen.code,
                     text |-> seen.text])
    ELSE Finished(Received(call[p], response), <<event>>, Error("Ureq"))]

\* check_version_exists taking a 404 for a success
CheckVersionExists_ignores_404(p) ==
  /\ call[p].pc = "check_version_exists"
  /\ \E response \in Responses({"json"}) :
       AnsweredAs(p, "query", response,
                  IF response.type = "Status" /\ response.code = 404
                  THEN [type |-> "Ok", body |-> "json"] ELSE response,
                  "NonExistsVersion", "download", call[p].locals)
  /\ UNCHANGED <<OS, ARCH, env, fs>>

\* check_version_exists reporting every other status as 500
CheckVersionExists_fixed_code(p) ==
  /\ call[p].pc = "check_version_exists"
  /\ \E response \in Responses({"json"}) :
       AnsweredAs(p, "query", response,
                  IF response.type = "Status" /\ response.code # 404
                  THEN [response EXCEPT !.code = 500] ELSE response,
                  "NonExistsVersion", "download", call[p].locals)
  /\ UNCHANGED <<OS, ARCH, env, fs>>

\* install.rs:7-24 check_version_exists
CheckVersionExists(p) ==
  /\ call[p].pc = "check_version_exists"
  /\ \E response \in Responses({"json"}) :
       Answered(p, "query", response, "NonExistsVersion", "download", call[p].locals)
  /\ UNCHANGED <<OS, ARCH, env, fs>>

\* download reporting its 404 as the 404 of the version query
Download_version_error(p) ==
  /\ call[p].pc = "download"
  /\ \E response \in Responses({"zip", "garbage"}) :
       Answered(p, "download", response, "NonExistsVersion", "remove_previous",
                IF response.type = "Ok"
                THEN [call[p].locals EXCEPT !.response = response.body]
                ELSE call[p].locals)
  /\ UNCHANGED <<OS, ARCH, env, fs>>

\* download asked a second time after a transport error
Download_retry_once(p) ==
  /\ call[p].pc = "download"
  /\ \E response \in Responses({"zip", "garbage"}) :
       IF response.type = "Transport" /\ Len(call[p].responses) < 2
       THEN call' = [call EXCEPT ![p] =
              Moved(Received(call[p], response), "download", <<"download">>, call[p].locals)]
       ELSE Answered(p, "download", response, "NonExistsPlatformVersion", "remove_previous",
                     IF response.type = "Ok"
                     THEN [call[p].locals EXCEPT !.response = response.body]
                     ELSE call[p].locals)
  /\ UNCHANGED <<OS, ARCH, env, fs>>

\* download removing the stale archive file before it asks the remote
Download_after_remove_previous(p) ==
  /\ call[p].pc = "download"
  /\ fs' = IF Exists(protoc_asset_file_path(p)) THEN Without(fs, protoc_asset_file_path(p))
           ELSE fs
  /\ \E response \in Responses({"zip", "garbage"}) :
       Answered(p, "download", response, "NonExistsPlatformVersion", "remove_previous",
                IF response.type = "Ok"
                THEN [call[p].locals EXCEPT !.response = response.body]
                ELSE call[p].locals)
  /\ UNCHANGED <<OS, ARCH, env>>

\* install.rs:27-49 download
Download(p) ==
  /\ call[p].pc = "download"
  /\ \E response \in Responses({"zip", "garbage"}) :
       Answered(p, "download", response, "NonExistsPlatformVersion", "remove_previous",
                IF response.type = "Ok"
                THEN [call[p].locals EXCEPT !.response = response.body]
                ELSE call[p].locals)
  /\ UNCHANGED <<OS, ARCH, env, fs>>

\* install.rs:67-69 remove the previous asset file
RemovePrevious(p) ==
  /\ call[p].pc = "remove_previous"
  /\ IF Exists(protoc_asset_file_path(p))
     THEN \/ /\ fs' = Without(fs, protoc_asset_file_path(p))
             /\ Goto(p, "create", <<"remove_previous">>, call[p].locals)
          \/ /\ UNCHANGED fs
             /\ Return(p, <<>>, Error("Io"))
     ELSE /\ UNCHANGED fs
          /\ Goto(p, "create", <<>>, call[p].locals)
  /\ UNCHANGED <<OS, ARCH, env>>

\* install.rs:72-75 File::options().create(true).read(true).write(true).open
CreateFile(p) ==
  /\ call[p].pc = "create"
  /\ \/ /\ fs' = IF Exists(protoc_asset_file_path(p)) THEN fs
                 ELSE WithEntry(fs, protoc_asset_file_path(p), File("empty"))
        /\ Goto(p, "copy", <<"create">>, call[p].locals)
     \/ /\ UNCHANGED fs
        /\ Return(p, <<>>, Error("Io"))
  /\ UNCHANGED <<OS, ARCH, env>>

\* install.rs:78-79 copy the response body to the file
Copy(p) ==
  /\ call[p].pc = "copy"
  /\ \/ /\ fs' = WithEntry(fs, protoc_asset_file_path(p), File(call[p].locals.response))
        /\ Goto(p, "zip_new", <<"write">>, call[p].locals)
     \/ /\ fs' = WithEntry(fs, protoc_asset_file_path(p), File("partial"))
        /\ Return(p, <<"write">>, Error("Io"))
  /\ UNCHANGED <<OS, ARCH, env>>

\* install.rs:82 ZipArchive::new(file): reads back what was written
ZipNew(p) ==
  /\ call[p].pc = "zip_new"
  /\ IF call[p].locals.response = "zip"
     THEN Goto(p, "extract", <<>>, call[p].locals)
     ELSE Return(p, <<>>, Error("Zip"))
  /\ UNCHANGED <<OS, ARCH, env, fs>>

\* extraction into a cleaned output root: the Install Directories of other versions
\* are removed before the archive is unpacked
Extract_cleans_out_root(p) ==
  /\ call[p].pc = "extract"
  /\ \/ /\ fs' = Extracted([q \in { path \in DOMAIN fs :
                                     \/ ~StartsWith(path, OutRoot)
                                     \/ path = OutRoot
                                     \/ path = protoc_asset_file_path(p)
                                     \/ StartsWith(path, call[p].locals.protoc_out_dir) }
                             |-> fs[q]],
                           call[p].version, call[p].locals.protoc_out_dir)
        /\ Goto(p, "remove_archive", <<"extract">>, call[p].locals)
     \/ /\ UNCHANGED fs
        /\ Return(p, <<"extract">>, Error("Zip"))
     \/ /\ fs' = WithEntry(fs, call[p].locals.protoc_out_dir, Dir)
        /\ Return(p, <<"extract">>, Error("Zip"))
  /\ UNCHANGED <<OS, ARCH, env>>

\* install.rs:83 archive.extract(protoc_out_dir): completes, or fails having created
\* nothing, or fails having created the directory without the binary
Extract(p) ==
  /\ call[p].pc = "extract"
  /\ \/ /\ fs' = Extracted(fs, call[p].version, call[p].locals.protoc_out_dir)
        /\ Goto(p, "remove_archive", <<"extract">>, call[p].locals)
     \/ /\ UNCHANGED fs
        /\ Return(p, <<"extract">>, Error("Zip"))
     \/ /\ fs' = WithEntry(fs, call[p].locals.protoc_out_dir, Dir)
        /\ Return(p, <<"extract">>, Error("Zip"))
  /\ UNCHANGED <<OS, ARCH, env>>

\* install without the final remove_file
RemoveArchive_forgotten(p) ==
  /\ call[p].pc = "remove_archive"
  /\ Goto(p, "get_bin_path", <<>>, call[p].locals)
  /\ UNCHANGED <<OS, ARCH, env, fs>>

\* install.rs:85 remove_file(&protoc_asset_file_path)
RemoveArchive(p) ==
  /\ call[p].pc = "remove_archive"
  /\ \/ /\ Exists(protoc_asset_file_path(p))
        /\ fs' = Without(fs, protoc_asset_file_path(p))
        /\ Goto(p, "get_bin_path", <<"remove_archive">>, call[p].locals)
     \/ /\ UNCHANGED fs
        /\ Return(p, <<>>, Error("Io"))
  /\ UNCHANGED <<OS, ARCH, env>>

\* init.rs:38 Ok(get_bin_path(version, &protoc_out_dir))
GetBinPath(p) ==
  /\ call[p].pc = "get_bin_path"
  /\ Goto(p, "metadata", <<>>,
          [call[p].locals EXCEPT
             !.protoc_bin = get_bin_path(call[p].version, call[p].locals.protoc_out_dir)])
  /\ UNCHANGED <<OS, ARCH, env, fs>>

\* init.rs:42 metadata(&protoc_bin)
Metadata(p) ==
  /\ call[p].pc = "metadata"
  /\ IF Exists(call[p].locals.protoc_bin)
     THEN Goto(p, "run", <<"metadata">>, call[p].locals)
     ELSE Return(p, <<"metadata">>, Error("Io"))
  /\ UNCHANGED <<OS, ARCH, env, fs>>

\* init with the exit status of the test run not looked at
Run_status_ignored(p) ==
  /\ call[p].pc = "run"
  /\ \E output \in Outputs :
       /\ output.spawned => Exists(call[p].locals.protoc_bin)
                            /\ is_file(call[p].locals.protoc_bin)
       /\ IF ~output.spawned THEN Return(p, <<>>, Error("Io"))
          ELSE call' = [call EXCEPT ![p] =
                 Moved([call[p] EXCEPT !.probe = output], "check_version", <<"run">>,
                       [call[p].locals EXCEPT !.output = output])]
  /\ UNCHANGED <<OS, ARCH, env, fs>>

\* init.rs:45-48 Command::new(&protoc_bin).args(["--version"]).output()
Run(p) ==
  /\ call[p].pc = "run"
  /\ \E output \in Outputs :
       /\ output.spawned => Exists(call[p].locals.protoc_bin)
                            /\ is_file(call[p].locals.protoc_bin)
       /\ IF ~output.spawned THEN Return(p, <<>>, Error("Io"))
          ELSE IF ~output.success
          THEN call' = [call EXCEPT ![p] =
                 Finished([call[p] EXCEPT !.probe = output], <<"run">>, Error("Io"))]
          ELSE call' = [call EXCEPT ![p] =
                 Moved([call[p] EXCEPT !.probe = output], "check_version", <<"run">>,
                       [call[p].locals EXCEPT !.output = output])]
  /\ UNCHANGED <<OS, ARCH, env, fs>>

\* init.rs:58 stdout.trim().replace("libprotoc ", "")
returned_version(stdout) == Remove(Trim(stdout), <<"l","i","b","p","r","o","t","o","c"," ">>)

VersionCheck(required, returned) ==
  [ok |-> FALSE, err |-> "VersionCheck", required |-> required, returned |-> returned]

\* the version check with the toggle read the wrong way round
CheckVersion_toggle_inverted(p) ==
  /\ call[p].pc = "check_version"
  /\ LET output == call[p].locals.output IN
     IF var_bool(env.PROTOC_PREBUILT_NOT_CHECK_VERSION) THEN
       IF ~output.utf8 THEN Return(p, <<"from_utf8">>, Error("Io"))
       ELSE IF ~compare_versions(call[p].version, returned_version(output.stdout))
       THEN Return(p, <<"from_utf8", "compare_versions">>,
                   VersionCheck(call[p].version, returned_version(output.stdout)))
       ELSE Goto(p, "get_force_include", <<"from_utf8", "compare_versions">>, call[p].locals)
     ELSE Goto(p, "get_force_include", <<>>, call[p].locals)
  /\ UNCHANGED <<OS, ARCH, env, fs>>

\* init.rs:50-63 the version check
CheckVersion(p) ==
  /\ call[p].pc = "check_version"
  /\ LET output == call[p].locals.output IN
     IF ~var_bool(env.PROTOC_PREBUILT_NOT_CHECK_VERSION) THEN
       IF ~output.utf8 THEN Return(p, <<"from_utf8">>, Error("Io"))
       ELSE IF ~compare_versions(call[p].version, returned_version(output.stdout))
       THEN Return(p, <<"from_utf8", "compare_versions">>,
                   VersionCheck(call[p].version, returned_version(output.stdout)))
       ELSE Goto(p, "get_force_include", <<"from_utf8", "compare_versions">>, call[p].locals)
     ELSE Goto(p, "get_force_include", <<>>, call[p].locals)
  /\ UNCHANGED <<OS, ARCH, env, fs>>

\* init.rs:65-68 get_force_include()? or get_include_path, then Ok
GetForceInclude(p) ==
  /\ call[p].pc = "get_force_include"
  /\ LET forced == get_force_include IN
     IF forced[1] = "Err" THEN Return(p, <<"get_force_include">>, forced[2])
     ELSE Return(p, <<"get_force_include">>,
                 [ok |-> TRUE, err |-> "none", protoc_bin |-> call[p].locals.protoc_bin,
                  protoc_include |->
                    IF forced = None
                    THEN get_include_path(call[p].version, call[p].locals.protoc_bin)
                    ELSE forced[3]])
  /\ UNCHANGED <<OS, ARCH, env, fs>>

\* tests/integration.rs:44 the caller deletes the installed binary between two calls
RemoveBinary ==
  /\ \A p \in DOMAIN call : ~Running(p)
  /\ \E p \in DOMAIN call :
       /\ call[p].pc = "done"
       /\ call[p].result.ok
       /\ Exists(call[p].result.protoc_bin)
       /\ fs' = Without(fs, call[p].result.protoc_bin)
  /\ UNCHANGED <<OS, ARCH, env, call>>

----------------------------------------------------------------------------

\* the environment variables and the override paths they point at, before any call
InitEnv ==
  /\ \E platform \in Platforms : OS = platform[1] /\ ARCH = platform[2]
  /\ env \in [ OUT_DIR : {NotPresent, Set(OutRoot)},
               PROTOC_PREBUILT_FORCE_PROTOC_PATH : {NotPresent, Set(ForceBinPath)},
               PROTOC_PREBUILT_FORCE_INCLUDE_PATH : {NotPresent, Set(ForceIncludePath)},
               PROTOC_PREBUILT_NOT_CHECK_VERSION : ToggleValues ]

\* the output root exists and is empty; an override path is absent, a file, a directory
\* or an entry that is neither (it is absent when its variable is not set)
InitFs ==
  \E bin \in {"none", "file", "dir", "other"}, include \in {"none", "file", "dir", "other"} :
    /\ ~IsOk(env.PROTOC_PREBUILT_FORCE_PROTOC_PATH) => bin = "none"
    /\ ~IsOk(env.PROTOC_PREBUILT_FORCE_INCLUDE_PATH) => include = "none"
    /\ LET entry(kind) == IF kind = "file" THEN File("protoc")
                          ELSE IF kind = "dir" THEN Dir ELSE Other
           f0 == [q \in {OutRoot} |-> Dir]
           f1 == IF bin = "none" THEN f0 ELSE WithEntry(f0, ForceBinPath, entry(bin))
       IN  fs = IF include = "none" THEN f1
                ELSE WithEntry(f1, ForceIncludePath, entry(include))

\* one caller: calls of init follow one another
Init ==
  /\ InitEnv
  /\ InitFs
  /\ call = [p \in {1} |-> Idle(fs)]

Next ==
  \/ \E p \in DOMAIN call, version \in Versions : Start(p, version)
  \/ \E p \in DOMAIN call : GetForceBin(p)
  \/ \E p \in DOMAIN call : OutDir(p)
  \/ \E p \in DOMAIN call : ExistsCheck(p)
  \/ \E p \in DOMAIN call : CheckVersionExists(p)
  \/ \E p \in DOMAIN call : Download(p)
  \/ \E p \in DOMAIN call : RemovePrevious(p)
  \/ \E p \in DOMAIN call : CreateFile(p)
  \/ \E p \in DOMAIN call : Copy(p)
  \/ \E p \in DOMAIN call : ZipNew(p)
  \/ \E p \in DOMAIN call : Extract(p)
  \/ \E p \in DOMAIN call : RemoveArchive(p)
  \/ \E p \in DOMAIN call : GetBinPath(p)
  \/ \E p \in DOMAIN call : Metadata(p)
  \/ \E p \in DOMAIN call : Run(p)
  \/ \E p \in DOMAIN call : CheckVersion(p)
  \/ \E p \in DOMAIN call : GetForceInclude(p)
  \/ RemoveBinary

Spec == Init /\ [][Next]_vars

----------------------------------------------------------------------------
(* Two calls of init at a time, as two build scripts of one workspace run   *)
(* by cargo in parallel: each caller calls init once, the output root is   *)
(* set and empty, no override is set.  A step of a call is taken at once;  *)
(* the steps of the two calls interleave in any order.                     *)

\* init is called by a caller that has not called it yet
StartConcurrent(p, version) ==
  /\ call[p].pc = "idle"
  /\ Start(p, version)

InitConcurrent ==
  /\ InitEnv
  /\ IsOk(env.OUT_DIR)
  /\ ~IsOk(env.PROTOC_PREBUILT_FORCE_PROTOC_PATH)
  /\ ~IsOk(env.PROTOC_PREBUILT_FORCE_INCLUDE_PATH)
  /\ env.PROTOC_PREBUILT_NOT_CHECK_VERSION = NotPresent
  /\ fs = [q \in {OutRoot} |-> Dir]
  /\ call = [p \in {1, 2} |-> Idle(fs)]

NextConcurrent ==
  \/ \E p \in DOMAIN call, version \in Versions : StartConcurrent(p, version)
  \/ \E p \in DOMAIN call : GetForceBin(p)
  \/ \E p \in DOMAIN call : OutDir(p)
  \/ \E p \in DOMAIN call : ExistsCheck(p)
  \/ \E p \in DOMAIN call : CheckVersionExists(p)
  \/ \E p \in DOMAIN call : Download(p)
  \/ \E p \in DOMAIN call : RemovePrevious(p)
  \/ \E p \in DOMAIN call : CreateFile(p)
  \/ \E p \in DOMAIN call : Copy(p)
  \/ \E p \in DOMAIN call : ZipNew(p)
  \/ \E p \in DOMAIN call : Extract(p)
  \/ \E p \in DOMAIN call : RemoveArchive(p)
  \/ \E p \in DOMAIN call : GetBinPath(p)
  \/ \E p \in DOMAIN call : Metadata(p)
  \/ \E p \in DOMAIN call : Run(p)
  \/ \E p \in DOMAIN call : CheckVersion(p)
  \/ \E p \in DOMAIN call : GetForceInclude(p)

SpecConcurrent == InitConcurrent /\ [][NextConcurrent]_vars

----------------------------------------------------------------------------
(* Two calls of init one after the other for release candidates of 3.7.0,   *)
(* requested as the tag spells them (version.rs:7-16) and as the other      *)
(* release candidates are spelled; the output root is set and empty, no     *)
(* override is set.                                                         *)

RcVersions ==
  { <<"3",".","7",".","0","r","c","2">>, <<"3",".","7",".","0","-","r","c","2">>, <<"3",".","7",".","0","-","r","c",".","3">>, <<"3",".","7",".","0","-","r","c","3">> }

\* init is called by a caller that has not called it yet, while no call is running
StartNext(p, version) ==
  /\ call[p].pc = "idle"
  /\ \A q \in DOMAIN call : ~Running(q)
  /\ Start(p, version)

NextIsolation ==
  \/ \E p \in DOMAIN call, version \in RcVersions : StartNext(p, version)
  \/ \E p \in DOMAIN call : GetForceBin(p)
  \/ \E p \in DOMAIN call : OutDir(p)
  \/ \E p \in DOMAIN call : ExistsCheck(p)
  \/ \E p \in DOMAIN call : CheckVersionExists(p)
  \/ \E p \in DOMAIN call : Download(p)
  \/ \E p \in DOMAIN call : RemovePrevious(p)
  \/ \E p \in DOMAIN call : CreateFile(p)
  \/ \E p \in DOMAIN call : Copy(p)
  \/ \E p \in DOMAIN call : ZipNew(p)
  \/ \E p \in DOMAIN call : Extract(p)
  \/ \E p \in DOMAIN call : RemoveArchive(p)
  \/ \E p \in DOMAIN call : GetBinPath(p)
  \/ \E p \in DOMAIN call : Metadata(p)
  \/ \E p \in DOMAIN call : Run(p)
  \/ \E p \in DOMAIN call : CheckVersion(p)
  \/ \E p \in DOMAIN call : GetForceInclude(p)

\* as InitConcurrent, with the version check switched on or off
InitIsolation ==
  /\ InitEnv
  /\ IsOk(env.OUT_DIR)
  /\ ~IsOk(env.PROTOC_PREBUILT_FORCE_PROTOC_PATH)
  /\ ~IsOk(env.PROTOC_PREBUILT_FORCE_INCLUDE_PATH)
  /\ env.PROTOC_PREBUILT_NOT_CHECK_VERSION \in {NotPresent, Set(<<"1">>)}
  /\ fs = [q \in {OutRoot} |-> Dir]
  /\ call = [p \in {1, 2} |-> Idle(fs)]

SpecIsolation == InitIsolation /\ [][NextIsolation]_vars

----------------------------------------------------------------------------
(* The functions of version.rs and path.rs applied on their own to given   *)
(* arguments, as the tests of `mod test` apply them                        *)

\* the versions applied: the tags the tests and the comments of version.rs and path.rs
\* name, their neighbours, and strings that are no tag at all
UnitVersions ==
  { <<"2","2",".","0">>, <<"2","2",".","0","-","r","c","3">>, <<"2","6",".","0","-","r","c","1">>,
    <<"2","1",".","0">>, <<"2","1",".","1","2">>, <<"2","1",".","0","-","r","c","1">>, <<"2","1",".","0","-","r","c","2">>, <<"2","1",".","1","-","r","c","1">>,
    <<"2",".","4",".","0">>, <<"2",".","4",".","1">>, <<"2",".","5",".","0">>, <<"2",".","6",".","0">>, <<"2",".","6",".","1">>,
    <<"3",".","0",".","0","-","a","l","p","h","a","-","1">>, <<"3",".","0",".","0","-","a","l","p","h","a","-","2">>, <<"3",".","0",".","0","-","a","l","p","h","a","-","3">>,
    <<"3",".","0",".","0","-","b","e","t","a","-","1">>, <<"3",".","0",".","0","-","b","e","t","a","-","2">>, <<"3",".","0",".","0","-","b","e","t","a","-","3">>, <<"3",".","0",".","0","-","b","e","t","a","-","4">>,
    <<"3",".","0",".","0">>, <<"3",".","0",".","2">>, <<"3",".","2",".","0","r","c","2">>, <<"3",".","2",".","0">>, <<"3",".","5",".","0">>,
    <<"3",".","7",".","0","r","c","1">>, <<"3",".","7",".","0","r","c","2">>, <<"3",".","7",".","0","-","r","c",".","3">>, <<"3",".","7",".","0","-","r","c","2">>, <<"3",".","7",".","0">>,
    <<"3",".","8",".","0","-","r","c","1">>, <<"3",".","9",".","0","-","r","c","1">>, <<"3",".","1","0",".","0","-","r","c","1">>, <<"3",".","1","0",".","0">>, <<"3",".","1","1",".","0","-","r","c","2">>,
    <<"3",".","1","1",".","2">>, <<"3",".","1","2",".","0","-","r","c","1">>, <<"3",".","1","2",".","2">>, <<"3",".","1","3",".","0","-","r","c","3">>, <<"3",".","1","4",".","0","-","r","c","2">>,
    <<"3",".","1","5",".","4">>, <<"3",".","1","6",".","0">>, <<"3",".","1","9",".","0","-","r","c","2">>, <<"3",".","1","9",".","5">>,
    <<"r","c">>, <<"r","c","r","c">>, <<>> }

\* the platforms applied: every pair of an OS and an architecture below
UnitOS == { <<"l","i","n","u","x">>, <<"m","a","c","o","s">>, <<"w","i","n","d","o","w","s">>, <<"f","r","e","e","b","s","d">> }
UnitArch == { <<"a","a","r","c","h","6","4">>, <<"p","o","w","e","r","p","c","6","4">>, <<"s","3","9","0","x">>, <<"x","8","6">>, <<"x","8","6","_","6","4">>,
              <<"a","r","m">>, <<"r","i","s","c","v","6","4">> }

\* the self-reported versions a required version is compared with: itself, itself
\* after "3.", its part before "-rc" and before "rc", nothing, and the reports the
\* tables of compare_versions name
UnitReported(required) ==
  { required, <<"3",".">> \o required, <<>>,
    <<"3",".","0",".","0">>, <<"3",".","2",".","0">>, <<"3",".","7",".","0">>, <<"3","0",".","1","0",".","0">>, <<"3",".","1","2",".","1">>, <<"3",".","1","9",".","0","-","r","c","1">>,
    <<"2",".","5",".","0">> }
  \cup (IF Contains(required, <<"-","r","c">>) THEN { SplitOnce(required, <<"-","r","c">>)[1] } ELSE {})
  \cup (IF Contains(required, <<"r","c">>) THEN { SplitOnce(required, <<"r","c">>)[1] } ELSE {})

\* the install directories applied (path.rs:65, path.rs:76 and one under the output root)
UnitOutDirs ==
  { <<<<"o","p","t">>, <<"p","r","o","t","o","c">>, <<"2","2",".","0">>>>, <<<<"o","p","t">>, <<"p","r","o","t","o","c">>, <<"2",".","4",".","1">>>>,
    Push(OutRoot, <<"p","r","o","t","o","c","-","2","2",".","0","-","l","i","n","u","x","-","x","8","6","_","6","4">>) }

\* no function applied yet; a function applied once to its arguments (a record of
\* them by name), with its result (a record of one field, named after its type)
NotApplied == [pc |-> "idle"]
Applied(fn, args, result) == [pc |-> "done", fn |-> fn, args |-> args, result |-> result]

Call_prepare_asset_version(p, version) ==
  /\ call[p].pc = "idle"
  /\ call' = [call EXCEPT ![p] =
       Applied("prepare_asset_version", [version |-> version],
               [string |-> prepare_asset_version(version)])]
  /\ UNCHANGED <<OS, ARCH, env, fs>>

Call_compare_versions(p, required, returned) ==
  /\ call[p].pc = "idle"
  /\ call' = [call EXCEPT ![p] =
       Applied("compare_versions", [required |-> required, returned |-> returned],
               [bool |-> compare_versions(required, returned)])]
  /\ UNCHANGED <<OS, ARCH, env, fs>>

\* init.rs:30 get_protoc_asset_name(version, OS, ARCH)
Call_get_protoc_asset_name(p, version) ==
  /\ call[p].pc = "idle"
  /\ call' = [call EXCEPT ![p] =
       Applied("get_protoc_asset_name", [version |-> version, os |-> OS, arch |-> ARCH],
               [result |-> get_protoc_asset_name(version, OS, ARCH)])]
  /\ UNCHANGED <<OS, ARCH, env, fs>>

Call_get_bin_path(p, version, protoc_out_dir) ==
  /\ call[p].pc = "idle"
  /\ call' = [call EXCEPT ![p] =
       Applied("get_bin_path", [version |-> version, protoc_out_dir |-> protoc_out_dir],
               [path |-> get_bin_path(version, protoc_out_dir)])]
  /\ UNCHANGED <<OS, ARCH, env, fs>>

\* init.rs:66 get_include_path(version, &protoc_bin) of the binary path of the version
Call_get_include_path(p, version, protoc_out_dir) ==
  /\ call[p].pc = "idle"
  /\ call' = [call EXCEPT ![p] =
       Applied("get_include_path",
               [version |-> version, protoc_bin |-> get_bin_path(version, protoc_out_dir)],
               [path |-> get_include_path(version, get_bin_path(version, protoc_out_dir))])]
  /\ UNCHANGED <<OS, ARCH, env, fs>>

\* any build, the output root set and empty, nothing applied
InitUnit ==
  /\ OS \in UnitOS
  /\ ARCH \in UnitArch
  /\ env = [ OUT_DIR |-> Set(OutRoot),
             PROTOC_PREBUILT_FORCE_PROTOC_PATH |-> NotPresent,
             PROTOC_PREBUILT_FORCE_INCLUDE_PATH |-> NotPresent,
             PROTOC_PREBUILT_NOT_CHECK_VERSION |-> NotPresent ]
  /\ fs = [q \in {OutRoot} |-> Dir]
  /\ call = [p \in {1} |-> NotApplied]

NextUnit ==
  \/ \E p \in DOMAIN call, version \in UnitVersions : Call_prepare_asset_version(p, version)
  \/ \E p \in DOMAIN call, required \in UnitVersions :
       \E returned \in UnitReported(required) : Call_compare_versions(p, required, returned)
  \/ \E p \in DOMAIN call, version \in UnitVersions : Call_get_protoc_asset_name(p, version)
  \/ \E p \in DOMAIN call, version \in UnitVersions, protoc_out_dir \in UnitOutDirs :
       Call_get_bin_path(p, version, protoc_out_dir)
  \/ \E p \in DOMAIN call, version \in UnitVersions, protoc_out_dir \in UnitOutDirs :
       Call_get_include_path(p, version, protoc_out_dir)

SpecUnit == InitUnit /\ [][NextUnit]_vars

----------------------------------------------------------------------------
(* What the claims speak of                                                *)

Callers == DOMAIN call
Called(p) == call[p].pc # "idle"
Done(p) == call[p].pc = "done"

\* the call did the step `event`
Did(p, event) == \E i \in DOMAIN call[p].log : call[p].log[i] = event

\* how many times the call did the step `event`
Times(p, event) == Cardinality({ i \in DOMAIN call[p].log : call[p].log[i] = event })

\* the steps of install that reach the remote, write files or unpack
InstallSteps == {"query", "download", "remove_previous", "create", "write", "extract",
                 "remove_archive"}

NoBinOverride == ~IsOk(env.PROTOC_PREBUILT_FORCE_PROTOC_PATH)
NoIncludeOverride == ~IsOk(env.PROTOC_PREBUILT_FORCE_INCLUDE_PATH)

\* the requested version has an Install Directory: the output root is set and the
\* platform is provided
HasInstallDir(version) ==
  /\ IsOk(env.OUT_DIR)
  /\ get_protoc_asset_name(version, OS, ARCH)[1] = "Ok"

\* init.rs:31 out_dir.join(&protoc_asset_name)
InstallDir(version) ==
  Push(env.OUT_DIR[2], get_protoc_asset_name(version, OS, ARCH)[2])

\* install.rs:64 out_dir.join(&protoc_asset_file_name)
ArchivePath(version) ==
  Push(env.OUT_DIR[2], get_protoc_asset_name(version, OS, ARCH)[2] \o <<".","z","i","p">>)

\* the entry of a path in a filesystem, "absent" when there is none
Entry(f, path) == IF path \in DOMAIN f THEN f[path] ELSE [kind |-> "absent", content |-> "none"]

\* the call found its Install Directory in place when it started
InstalledAtStart(p) ==
  /\ HasInstallDir(call[p].version)
  /\ InstallDir(call[p].version) \in DOMAIN call[p].fs0

----------------------------------------------------------------------------
(* C1: a call of init without binary override that finds the Install       *)
(* Directory of its (version, platform) in place issues no remote request  *)
(* (neither the version-existence query nor the download), writes no       *)
(* archive file and extracts nothing.                                      *)
C1_IdempotentSkip ==
  \A p \in Callers :
    (Called(p) /\ NoBinOverride /\ InstalledAtStart(p)) =>
      /\ \A event \in InstallSteps : ~Did(p, event)
      /\ Entry(fs, ArchivePath(call[p].version))
           = Entry(call[p].fs0, ArchivePath(call[p].version))

\* a call that skipped the installation and succeeded
C1_Witness ==
  \E p \in Callers :
    /\ Done(p) /\ NoBinOverride /\ InstalledAtStart(p)
    /\ Did(p, "exists")
    /\ call[p].result.ok

(* C2: the Install Directory exists but the binary inside it was deleted:  *)
(* the following init call (no override set) returns Ok with the derived   *)
(* binary and resource paths, and the returned binary path does not exist. *)

\* the state a deletion of the binary leaves: everything the archive unpacks is in
\* place at the start of the call, bin/ included, but the binary
BinaryDeletedAtStart(p) ==
  LET entries == ArchiveEntries(call[p].version, InstallDir(call[p].version))
  IN  /\ InstalledAtStart(p)
      /\ ~is_binary_in_root(call[p].version)
      /\ entries.dirs \subseteq DOMAIN call[p].fs0
      /\ entries.files \cap DOMAIN call[p].fs0 = {}

C2_ExistenceIsTheMarker ==
  \A p \in Callers :
    (Done(p) /\ NoBinOverride /\ NoIncludeOverride /\ BinaryDeletedAtStart(p)) =>
       /\ call[p].result.ok
       /\ call[p].result.protoc_bin
            = get_bin_path(call[p].version, InstallDir(call[p].version))
       /\ call[p].result.protoc_include
            = get_include_path(call[p].version, call[p].result.protoc_bin)
       /\ ~Exists(call[p].result.protoc_bin)

(* C3: when the version-existence query answers 404, the call returns      *)
(* NonExistsVersion carrying the requested version, never issues the       *)
(* download, writes no archive file and creates no Install Directory.      *)
Is404(response) == response.type = "Status" /\ response.code = 404

C3_VersionNotFound ==
  \A p \in Callers :
    (Did(p, "query") /\ Is404(call[p].responses[1])) =>
      /\ Done(p)
      /\ call[p].result = [ok |-> FALSE, err |-> "NonExistsVersion",
                           version |-> call[p].version, at |-> "check_version_exists"]
      /\ \A event \in InstallSteps \ {"query"} : ~Did(p, event)
      /\ Entry(fs, ArchivePath(call[p].version))
           = Entry(call[p].fs0, ArchivePath(call[p].version))
      /\ ~Exists(InstallDir(call[p].version))

C3_Witness ==
  \E p \in Callers :
    /\ Done(p) /\ Did(p, "query") /\ Is404(call[p].responses[1])
    /\ call[p].result.err = "NonExistsVersion"

(* C4: a 404 on the download is only seen after the version-existence      *)
(* query succeeded, and gives NonExistsPlatformVersion, never              *)
(* NonExistsVersion; a 404 on the query never gives                        *)
(* NonExistsPlatformVersion.                                               *)
C4_PlatformBuildNotFound ==
  \A p \in Callers :
    /\ (Did(p, "download") /\ Is404(call[p].responses[2])) =>
         /\ call[p].log[Len(call[p].log) - 1] = "query"
         /\ call[p].responses[1].type = "Ok"
         /\ Done(p)
         /\ call[p].result.err = "NonExistsPlatformVersion"
         /\ call[p].result.version = call[p].version
    /\ (Did(p, "query") /\ Is404(call[p].responses[1])) =>
         call[p].result.err # "NonExistsPlatformVersion"

C4_Witness ==
  \E p \in Callers :
    /\ Done(p) /\ Did(p, "download") /\ Is404(call[p].responses[2])
    /\ call[p].result.err = "NonExistsPlatformVersion"

(* C5 as stated: every status error of the version-existence query other   *)
(* than 404 makes the call fail with GitHubApi carrying that status code   *)
(* and the response body, and no later step runs.                          *)
IsOtherStatus(response) == response.type = "Status" /\ response.code # 404

C5_AsStated ==
  \A p \in Callers :
    (Did(p, "query") /\ IsOtherStatus(call[p].responses[1])) =>
      /\ Done(p)
      /\ call[p].result = [ok |-> FALSE, err |-> "GitHubApi",
                           code |-> call[p].responses[1].code,
                           text |-> call[p].responses[1].text,
                           at |-> "check_version_exists"]
      /\ call[p].log[Len(call[p].log)] = "query"

(* C5 amended: every status error of the version-existence query other     *)
(* than 404 ends the call at that step: with GitHubApi carrying that       *)
(* status code and the body text when the body can be read, with Io when   *)
(* reading the body fails; no later step runs.                             *)
C5_RemoteError ==
  \A p \in Callers :
    (Did(p, "query") /\ IsOtherStatus(call[p].responses[1])) =>
      /\ Done(p)
      /\ call[p].result =
           IF call[p].responses[1].readable
           THEN [ok |-> FALSE, err |-> "GitHubApi", code |-> call[p].responses[1].code,
                 text |-> call[p].responses[1].text, at |-> "check_version_exists"]
           ELSE [ok |-> FALSE, err |-> "Io", at |-> "check_version_exists"]
      /\ call[p].log[Len(call[p].log)] = "query"
      /\ Len(call[p].responses) = 1

C5_Witness ==
  \E p \in Callers :
    /\ Done(p) /\ Did(p, "query")
    /\ call[p].responses[1].type = "Status" /\ call[p].responses[1].code = 403
    /\ call[p].result.err = "GitHubApi" /\ call[p].result.code = 403

(* C6 as stated: when a call returns, the temporary archive file is        *)
(* absent, unless the extraction step (opening the archive, unpacking it)  *)
(* failed.                                                                 *)
C6_AsStated ==
  \A p \in Callers :
    (Done(p) /\ HasInstallDir(call[p].version)
       /\ call[p].result.at \notin {"zip_new", "extract"})
    => ~Exists(ArchivePath(call[p].version))

(* C6 amended: when a call returns, the temporary archive file is absent,  *)
(* except when the write of the downloaded body, the extraction step or    *)
(* the final removal failed, and except when a stale archive was there at  *)
(* the start and the call returned without having removed it (then it is   *)
(* left as it was).                                                        *)
C6_ArchiveCleanup ==
  \A p \in Callers :
    (Done(p) /\ HasInstallDir(call[p].version) /\ Exists(ArchivePath(call[p].version)))
    => \/ call[p].result.at \in {"copy", "zip_new", "extract", "remove_archive"}
       \/ /\ ~Did(p, "remove_previous")
          /\ ArchivePath(call[p].version) \in DOMAIN call[p].fs0
          /\ fs[ArchivePath(call[p].version)] = call[p].fs0[ArchivePath(call[p].version)]

\* an installation that wrote its archive, unpacked it and removed it
C6_Witness ==
  \E p \in Callers :
    /\ Done(p) /\ call[p].result.ok
    /\ Did(p, "write") /\ Did(p, "extract") /\ Did(p, "remove_archive")
    /\ ~Exists(ArchivePath(call[p].version))

(* C7 as stated: both override checks precede all network, write and       *)
(* process activity: a call that returns ForcePath has issued no remote    *)
(* request, written no file and run no binary.                             *)
C7_AsStated ==
  \A p \in Callers :
    (Done(p) /\ call[p].result.err = "ForcePath") =>
      /\ \A event \in InstallSteps : ~Did(p, event)
      /\ ~Did(p, "run")

(* C7 amended: the binary override check is the first step of init: an     *)
(* invalid binary override returns ForcePath with no remote request        *)
(* issued, no file written and no binary run.  The resource-directory      *)
(* override check is the last step: an invalid resource-directory override *)
(* returns ForcePath only after the binary was obtained (installed when    *)
(* needed), found and run.                                                 *)
BinOverrideInvalidAtStart(p) ==
  /\ IsOk(env.PROTOC_PREBUILT_FORCE_PROTOC_PATH)
  /\ Entry(call[p].fs0, env.PROTOC_PREBUILT_FORCE_PROTOC_PATH[2]).kind \in {"absent", "dir"}

C7_OverrideChecks ==
  \A p \in Callers :
    /\ call[p].log # <<>> => call[p].log[1] = "get_force_bin"
    /\ (Done(p) /\ BinOverrideInvalidAtStart(p)) =>
         /\ call[p].result.err = "ForcePath"
         /\ call[p].result.variable = "PROTOC_PREBUILT_FORCE_PROTOC_PATH"
         /\ call[p].log = <<"get_force_bin">>
    /\ (Done(p) /\ call[p].result.err = "ForcePath"
          /\ call[p].result.variable = "PROTOC_PREBUILT_FORCE_INCLUDE_PATH") =>
         /\ call[p].log[Len(call[p].log)] = "get_force_include"
         /\ Did(p, "metadata") /\ Did(p, "run")
         /\ (NoBinOverride /\ ~InstalledAtStart(p)) =>
              (Did(p, "query") /\ Did(p, "download") /\ Did(p, "extract"))

\* an invalid resource-directory override reported after a download and a probe
C7_Witness ==
  \E p \in Callers :
    /\ Done(p) /\ call[p].result.err = "ForcePath"
    /\ call[p].result.variable = "PROTOC_PREBUILT_FORCE_INCLUDE_PATH"
    /\ Did(p, "download") /\ Did(p, "run")

(* C8: with both overrides set and valid (the binary override a file, the  *)
(* resource override a directory) init does not read the output root,      *)
(* resolves no asset name, creates no Install Directory, issues no remote  *)
(* request, and when it succeeds returns exactly the two override paths.   *)
BothOverridesValidAtStart(p) ==
  /\ IsOk(env.PROTOC_PREBUILT_FORCE_PROTOC_PATH)
  /\ IsOk(env.PROTOC_PREBUILT_FORCE_INCLUDE_PATH)
  /\ Entry(call[p].fs0, env.PROTOC_PREBUILT_FORCE_PROTOC_PATH[2]).kind = "file"
  /\ Entry(call[p].fs0, env.PROTOC_PREBUILT_FORCE_INCLUDE_PATH[2]).kind = "dir"

C8_Bypass ==
  \A p \in Callers :
    (Called(p) /\ BothOverridesValidAtStart(p)) =>
      /\ ~Did(p, "var OUT_DIR")
      /\ ~Did(p, "get_protoc_asset_name")
      /\ ~Did(p, "exists")
      /\ \A event \in InstallSteps : ~Did(p, event)
      /\ DOMAIN fs \subseteq DOMAIN call[p].fs0
      /\ (Done(p) /\ call[p].result.ok) =>
           /\ call[p].result.protoc_bin = env.PROTOC_PREBUILT_FORCE_PROTOC_PATH[2]
           /\ call[p].result.protoc_include = env.PROTOC_PREBUILT_FORCE_INCLUDE_PATH[2]

C8_Witness ==
  \E p \in Callers :
    Done(p) /\ BothOverridesValidAtStart(p) /\ call[p].result.ok

(* C9: each override resolver gives no-override (Ok(None)) when its         *)
(* variable is unset, ForcePath "nothing exists" when the path does not    *)
(* exist, ForcePath "directory found" for a binary override that is a      *)
(* directory, ForcePath "file found" for a resource override that is a     *)
(* file, and otherwise Ok(Some(path)) with the path as given; init returns *)
(* that error unchanged.                                                   *)
Expected(value, variable, wrong, message) ==
  IF ~IsOk(value) THEN None
  ELSE IF Entry(fs, value[2]).kind = "absent"
  THEN Err([ok |-> FALSE, err |-> "ForcePath", message |-> "nothing exists",
            variable |-> variable, path |-> value[2]])
  ELSE IF Entry(fs, value[2]).kind = wrong
  THEN Err([ok |-> FALSE, err |-> "ForcePath", message |-> message,
            variable |-> variable, path |-> value[2]])
  ELSE Some(value[2])

C9_OverrideResolver ==
  /\ get_force_bin = Expected(env.PROTOC_PREBUILT_FORCE_PROTOC_PATH,
                              "PROTOC_PREBUILT_FORCE_PROTOC_PATH", "dir", "directory found")
  /\ get_force_include = Expected(env.PROTOC_PREBUILT_FORCE_INCLUDE_PATH,
                                  "PROTOC_PREBUILT_FORCE_INCLUDE_PATH", "file", "file found")
  /\ \A p \in Callers :
       /\ (Done(p) /\ call[p].result.at = "get_force_bin") =>
            Err([q \in DOMAIN call[p].result \ {"at"} |-> call[p].result[q]]) = get_force_bin
       /\ (Done(p) /\ call[p].result.at = "get_force_include" /\ ~call[p].result.ok) =>
            Err([q \in DOMAIN call[p].result \ {"at"} |-> call[p].result[q]]) = get_force_include

\* init stopped by a binary override that points at a directory
C9_Witness ==
  \E p \in Callers :
    /\ Done(p) /\ call[p].result.err = "ForcePath"
    /\ call[p].result.message = "directory found"
    /\ call[p].result.path = ForceBinPath

(* C10: unless PROTOC_PREBUILT_NOT_CHECK_VERSION is truthy, init returns   *)
(* Ok only if compare_versions accepts the requested version and the       *)
(* version the binary reports, and a rejected pair ends the call with      *)
(* VersionCheck carrying both; for an installed and for a forced binary.   *)
CheckEnabled == ~var_bool(env.PROTOC_PREBUILT_NOT_CHECK_VERSION)

C10_VersionGate ==
  \A p \in Callers :
    (Done(p) /\ CheckEnabled) =>
      /\ call[p].result.ok =>
           /\ call[p].probe.spawned /\ call[p].probe.success /\ call[p].probe.utf8
           /\ compare_versions(call[p].version, call[p].probe.reported)
      /\ ( /\ Did(p, "run") /\ call[p].probe.success /\ call[p].probe.utf8
           /\ ~compare_versions(call[p].version, call[p].probe.reported) ) =>
           call[p].result = [ok |-> FALSE, err |-> "VersionCheck",
                             required |-> call[p].version,
                             returned |-> call[p].probe.reported, at |-> "check_version"]

\* a forced binary that reports another version than the requested one
C10_Witness ==
  \E p \in Callers :
    /\ Done(p) /\ CheckEnabled /\ ~NoBinOverride
    /\ call[p].result.err = "VersionCheck"
    /\ call[p].result.returned # call[p].version

\* the call ran the binary: the process was spawned and its output collected
Probed(p) == Did(p, "run")

(* C11 as stated: in every call of init that reaches the test run, a       *)
(* non-zero exit status and a stdout that is not UTF-8 each end the call   *)
(* with an error, whatever PROTOC_PREBUILT_NOT_CHECK_VERSION is set to.    *)
C11_AsStated ==
  \A p \in Callers :
    (Done(p) /\ Probed(p) /\ (~call[p].probe.success \/ ~call[p].probe.utf8)) =>
      ~call[p].result.ok

(* C11: in every call of init that reaches the test run, a non-zero exit   *)
(* status ends the call with Io at the test run whatever the toggle is; a  *)
(* stdout that is not UTF-8 ends the call with Io when the toggle is not   *)
(* truthy, and is not looked at when the toggle is truthy: the call then   *)
(* goes on to the resource-directory override and returns what that gives. *)
C11_ProcessProbe ==
  \A p \in Callers :
    (Done(p) /\ Probed(p)) =>
      /\ ~call[p].probe.success =>
           call[p].result = [ok |-> FALSE, err |-> "Io", at |-> "run"]
      /\ (call[p].probe.success /\ ~call[p].probe.utf8 /\ CheckEnabled) =>
           call[p].result = [ok |-> FALSE, err |-> "Io", at |-> "check_version"]
      /\ (call[p].probe.success /\ ~call[p].probe.utf8 /\ ~CheckEnabled) =>
           /\ ~Did(p, "from_utf8")
           /\ call[p].result.at = "get_force_include"
           /\ call[p].result.ok = (get_force_include[1] = "Ok")

\* a binary whose stdout is not UTF-8, run while the version check is switched off
C11_Witness ==
  \E p \in Callers :
    /\ Done(p) /\ Probed(p) /\ call[p].probe.success /\ ~call[p].probe.utf8
    /\ ~CheckEnabled /\ call[p].result.ok

(* C12: with no binary override and OUT_DIR not set, init returns VarError *)
(* and makes no remote request, writes nothing to the filesystem and runs  *)
(* no process.                                                             *)
C12_OutDirMissing ==
  \A p \in Callers :
    (Called(p) /\ NoBinOverride /\ ~IsOk(env.OUT_DIR)) =>
      /\ Done(p) => call[p].result = [ok |-> FALSE, err |-> "VarError", at |-> "out_dir"]
      /\ \A event \in InstallSteps \cup {"run"} : ~Did(p, event)
      /\ fs = call[p].fs0

C12_Witness ==
  \E p \in Callers :
    /\ Done(p) /\ NoBinOverride /\ ~IsOk(env.OUT_DIR)
    /\ call[p].result.err = "VarError"

\* the steps of init and install in the order of the code
Protocol ==
  <<"get_force_bin", "var OUT_DIR", "get_protoc_asset_name", "exists", "query", "download",
    "remove_previous", "create", "write", "extract", "remove_archive", "metadata", "run",
    "from_utf8", "compare_versions", "get_force_include">>

\* the place of a step in the protocol
Place(event) == CHOOSE i \in DOMAIN Protocol : Protocol[i] = event

\* the last step that a call which returned from the position `at` can have done
LastStepAt(at) ==
  CASE at = "get_force_bin" -> "get_force_bin"
    [] at = "out_dir" -> "get_protoc_asset_name"
    [] at = "exists" -> "exists"
    [] at = "check_version_exists" -> "query"
    [] at = "download" -> "download"
    [] at = "remove_previous" -> "remove_previous"
    [] at = "create" -> "create"
    [] at = "copy" -> "write"
    [] at = "zip_new" -> "write"
    [] at = "extract" -> "extract"
    [] at = "remove_archive" -> "remove_archive"
    [] at = "metadata" -> "metadata"
    [] at = "run" -> "run"
    [] at = "check_version" -> "compare_versions"
    [] at = "get_force_include" -> "get_force_include"

\* the errors a step can end the call with
ErrorsAt(at) ==
  CASE at = "get_force_bin" -> {"ForcePath"}
    [] at = "out_dir" -> {"VarError", "NotProvidedPlatform"}
    [] at = "check_version_exists" -> {"NonExistsVersion", "GitHubApi", "Io", "Ureq"}
    [] at = "download" -> {"NonExistsPlatformVersion", "GitHubApi", "Io", "Ureq"}
    [] at \in {"remove_previous", "create", "copy", "remove_archive", "metadata", "run"} -> {"Io"}
    [] at \in {"zip_new", "extract"} -> {"Zip"}
    [] at = "check_version" -> {"Io", "VersionCheck"}
    [] at = "get_force_include" -> {"ForcePath"}
    [] OTHER -> {}

(* C20: in a call of init the version query and the download are each      *)
(* issued at most once, an answer of the remote that is not a success is   *)
(* the last one asked for, the steps are done in the order of the protocol *)
(* and none twice, and a call that failed did no step after the failing    *)
(* one and returns an error of that step.                                  *)
C20_NoRetryFirstErrorTerminal ==
  \A p \in Callers :
    Called(p) =>
      /\ Times(p, "query") <= 1 /\ Times(p, "download") <= 1
      /\ Len(call[p].responses) = Times(p, "query") + Times(p, "download")
      /\ \A i \in 1..(Len(call[p].responses) - 1) : call[p].responses[i].type = "Ok"
      /\ \A i, j \in DOMAIN call[p].log :
           i < j => Place(call[p].log[i]) < Place(call[p].log[j])
      /\ (Done(p) /\ ~call[p].result.ok) =>
           /\ \A i \in DOMAIN call[p].log :
                Place(call[p].log[i]) <= Place(LastStepAt(call[p].result.at))
           /\ call[p].result.err \in ErrorsAt(call[p].result.at)
           /\ (call[p].responses # <<>>
               /\ call[p].responses[Len(call[p].responses)].type # "Ok") =>
                call[p].result.at = IF Len(call[p].responses) = 1
                                    THEN "check_version_exists" ELSE "download"

\* the download fails in transport after the query succeeded: one request each
C20_Witness ==
  \E p \in Callers :
    /\ Done(p) /\ call[p].result.err = "Ureq" /\ call[p].result.at = "download"
    /\ Times(p, "query") = 1 /\ Times(p, "download") = 1

\* the call started on what a failed extraction leaves: the Install Directory created,
\* the binary not unpacked, the archive file of the download not removed
PartialAtStart(p) ==
  /\ InstalledAtStart(p)
  /\ get_bin_path(call[p].version, InstallDir(call[p].version)) \notin DOMAIN call[p].fs0
  /\ Entry(call[p].fs0, ArchivePath(call[p].version)) = File("zip")

(* C21: when an extraction failed after creating the Install Directory, a   *)
(* following call of init for the same version and platform takes it as    *)
(* installed: it passes the existence check, issues neither the query nor  *)
(* the download, writes no archive and extracts nothing, and the Install   *)
(* Directory and the archive left behind stay as they were.                *)
C21_PartialInstallHazard ==
  \A p \in Callers :
    (Called(p) /\ PartialAtStart(p)) =>
      /\ NoBinOverride
      /\ \A event \in InstallSteps : ~Did(p, event)
      /\ call[p].pc \notin {"check_version_exists", "download", "remove_previous", "create",
                            "copy", "zip_new", "extract", "remove_archive"}
      /\ fs = call[p].fs0

\* a call that started on a partial Install Directory, passed the existence check and
\* went on to look for the binary
C21_Witness ==
  \E p \in Callers :
    /\ Done(p) /\ PartialAtStart(p)
    /\ Did(p, "exists")
    /\ call[p].result.at = "metadata"

\* the positions of a call inside install
InstallPositions ==
  {"check_version_exists", "download", "remove_previous", "create", "copy", "zip_new",
   "extract", "remove_archive"}

\* the call is inside install
Installing(p) == call[p].pc \in InstallPositions

(* C22: nothing excludes two concurrent calls of init for one version and  *)
(* platform from installing at the same time: while one call is inside     *)
(* install and the Install Directory is still absent, the existence check  *)
(* of the other call can be taken and sends it into install too, and every *)
(* step of install of a call can be taken whatever the other call is doing. *)
C22_NoMutualExclusion ==
  \A p \in Callers : \A q \in Callers \ {p} :
    (Installing(p) /\ call[q].version = call[p].version) =>
      /\ (call[q].pc = "exists" /\ ~Exists(InstallDir(call[q].version))) =>
           ENABLED (ExistsCheck(q) /\ call'[q].pc = "check_version_exists")
      /\ call[q].pc = "check_version_exists" => ENABLED CheckVersionExists(q)
      /\ call[q].pc = "download" => ENABLED Download(q)
      /\ call[q].pc = "remove_previous" => ENABLED RemovePrevious(q)
      /\ call[q].pc = "create" => ENABLED CreateFile(q)
      /\ call[q].pc = "copy" => ENABLED Copy(q)
      /\ call[q].pc = "zip_new" => ENABLED ZipNew(q)
      /\ call[q].pc = "extract" => ENABLED Extract(q)
      /\ call[q].pc = "remove_archive" => ENABLED RemoveArchive(q)

\* two calls for one version that both started with the Install Directory absent, both
\* passed the existence check, both downloaded, and both wrote the archive and extracted
\* at the same paths; the second extraction is still under way
C22_Witness ==
  \E p \in Callers : \E q \in Callers \ {p} :
    /\ call[p].version = call[q].version
    /\ HasInstallDir(call[p].version)
    /\ InstallDir(call[p].version) \notin DOMAIN call[p].fs0
    /\ InstallDir(call[q].version) \notin DOMAIN call[q].fs0
    /\ \A event \in {"exists", "query", "download", "write", "extract"} :
         Did(p, event) /\ Did(q, event)
    /\ Installing(p) /\ Installing(q)
    /\ protoc_asset_file_path(p) = protoc_asset_file_path(q)
    /\ call[p].locals.protoc_out_dir = call[q].locals.protoc_out_dir

\* what a filesystem holds at and below a directory
Under(dir, f) == [q \in { path \in DOMAIN f : StartsWith(path, dir) } |-> f[q]]

\* the call found its Install Directory absent at its existence check: it went into install
FoundAbsent(p) ==
  /\ Did(p, "exists")
  /\ call[p].pc = "check_version_exists" \/ Did(p, "query")

\* the step taken is the extraction step of the call p
ExtractionOf(p) == call[p].pc = "extract" /\ call'[p] # call[p]

(* C23 as stated: once an Install Directory exists no step of any call of   *)
(* init deletes it or changes what it holds, and an Install Directory is   *)
(* written only by the extraction step of a call that found it absent.     *)
C23_AsStated ==
  [][\A version \in Versions :
       HasInstallDir(version) =>
         LET dir == InstallDir(version) IN
           /\ dir \in DOMAIN fs => Under(dir, fs') = Under(dir, fs)
           /\ Under(dir, fs') # Under(dir, fs) =>
                \E p \in Callers :
                  /\ ExtractionOf(p) /\ call[p].locals.protoc_out_dir = dir
                  /\ FoundAbsent(p)]_vars

(* C23: once an Install Directory exists no step of any call of init        *)
(* deletes it or an entry of it, and no call that found it present at its   *)
(* existence check writes to it; an Install Directory is written only by    *)
(* the extraction step of a call for its version that found it absent at    *)
(* its existence check, which can be after a concurrent call created it.    *)
C23_Lifecycle ==
  [][\A version \in Versions :
       HasInstallDir(version) =>
         LET dir == InstallDir(version) IN
           /\ \A path \in DOMAIN Under(dir, fs) : path \in DOMAIN fs'
           /\ Under(dir, fs') # Under(dir, fs) =>
                \E p \in Callers :
                  /\ ExtractionOf(p) /\ call[p].locals.protoc_out_dir = dir
                  /\ call[p].version = version
                  /\ FoundAbsent(p)
           /\ \A p \in Callers :
                (Did(p, "exists") /\ ~FoundAbsent(p)) => call'[p].pc \notin InstallPositions]_vars

\* an Install Directory exists, and a call for the other version that started after it
\* existed has installed its own and returned: the first directory is as it was
C23_Witness ==
  \E p \in Callers : \E q \in Callers \ {p} :
    /\ Did(p, "extract")
    /\ HasInstallDir(call[p].version)
    /\ InstallDir(call[p].version) \in DOMAIN call[q].fs0
    /\ call[q].version # call[p].version
    /\ Done(q) /\ Did(q, "extract")
    /\ InstallDir(call[q].version) \in DOMAIN fs
    /\ Under(InstallDir(call[p].version), fs) = Under(InstallDir(call[p].version), call[q].fs0)

\* the call resolved the asset name and the Install Directory of its version
Resolved(p) == Did(p, "get_protoc_asset_name") /\ HasInstallDir(call[p].version)

\* the call q skipped install at its existence check on the Install Directory that the
\* extraction of the call p made
TakenAsInstalled(q, p) ==
  /\ Did(p, "extract")
  /\ InstallDir(call[p].version) = InstallDir(call[q].version)
  /\ Did(q, "exists") /\ ~FoundAbsent(q)

\* the pairs of requested versions that version.rs:22-27 and version.rs:35-36 give one
\* asset version: "3.7.0-rc-2" and "3.7.0-rc-3"
OneAssetVersion ==
  { {<<"3",".","7",".","0","r","c","2">>, <<"3",".","7",".","0","-","r","c","2">>}, {<<"3",".","7",".","0","-","r","c",".","3">>, <<"3",".","7",".","0","-","r","c","3">>} }

(* C24 as stated: on one platform two distinct requested versions always    *)
(* resolve to distinct asset names and distinct Install Directories, and    *)
(* the existence check of a call never takes the installation made for a    *)
(* different version as the installation of its own.                        *)
C24_AsStated ==
  \A p \in Callers : \A q \in Callers \ {p} :
    (Resolved(p) /\ Resolved(q) /\ call[p].version # call[q].version) =>
      /\ get_protoc_asset_name(call[p].version, OS, ARCH)
           # get_protoc_asset_name(call[q].version, OS, ARCH)
      /\ InstallDir(call[p].version) # InstallDir(call[q].version)
      /\ ~TakenAsInstalled(q, p)

(* C24: on one platform two distinct requested versions resolve to distinct *)
(* asset names and distinct Install Directories unless prepare_asset_version *)
(* gives them one asset version, as it does for "3.7.0rc2" and "3.7.0-rc2"  *)
(* and for "3.7.0-rc.3" and "3.7.0-rc3"; an installation made for one       *)
(* version is taken by the existence check as the installation of another   *)
(* version for such a pair, and for no other.                               *)
C24_Isolation ==
  \A p \in Callers : \A q \in Callers \ {p} :
    (Resolved(p) /\ Resolved(q) /\ call[p].version # call[q].version) =>
      LET same == prepare_asset_version(call[p].version) = prepare_asset_version(call[q].version)
      IN  /\ same <=> {call[p].version, call[q].version} \in OneAssetVersion
          /\ same <=> get_protoc_asset_name(call[p].version, OS, ARCH)
                        = get_protoc_asset_name(call[q].version, OS, ARCH)
          /\ same <=> InstallDir(call[p].version) = InstallDir(call[q].version)
          /\ TakenAsInstalled(q, p) => same
          /\ (same /\ Did(q, "exists") /\ InstallDir(call[q].version) \in DOMAIN call[q].fs0)
               => ~FoundAbsent(q)

\* "3.7.0rc2" was installed; the following call for "3.7.0-rc2", a tag that does not
\* exist, finds that directory, asks the remote nothing and returns Ok
C24_Witness ==
  \E p \in Callers : \E q \in Callers \ {p} :
    /\ call[p].version = <<"3",".","7",".","0","r","c","2">> /\ call[q].version = <<"3",".","7",".","0","-","r","c","2">>
    /\ TakenAsInstalled(q, p)
    /\ ~Did(q, "query")
    /\ Done(q) /\ call[q].result.ok

\* the call returned an error from the version query or from the download
FailedAtRemote(p) ==
  /\ Done(p) /\ ~call[p].result.ok
  /\ call[p].result.at \in {"check_version_exists", "download"}

(* C25: a call that fails at the version query or at the download (404,     *)
(* another status, a transport error) leaves the filesystem as the call    *)
(* found it: no Install Directory and no archive file is created, a stale  *)
(* archive file is neither removed nor changed, and no step that writes    *)
(* was taken; the next call starts from that same filesystem, and a call   *)
(* that starts without the Install Directory goes from the existence       *)
(* check on to the version query.                                          *)
C25_RemoteFailureLeavesNoTrace ==
  [][\A p \in Callers :
       /\ FailedAtRemote(p) =>
            /\ fs = call[p].fs0
            /\ InstallDir(call[p].version) \notin DOMAIN fs
            /\ Entry(fs, ArchivePath(call[p].version))
                 = Entry(call[p].fs0, ArchivePath(call[p].version))
            /\ \A event \in {"remove_previous", "create", "write", "extract", "remove_archive"} :
                 ~Did(p, event)
            /\ call'[p].pc = "get_force_bin" => call'[p].fs0 = call[p].fs0
       /\ (Called(p) /\ NoBinOverride /\ HasInstallDir(call[p].version)
           /\ InstallDir(call[p].version) \notin DOMAIN call[p].fs0
           /\ Did(p, "exists")) => FoundAbsent(p)]_vars

\* the download failed while a stale archive file of an earlier attempt was in place
C25_Witness ==
  \E p \in Callers :
    /\ FailedAtRemote(p)
    /\ call[p].result.at = "download"
    /\ ArchivePath(call[p].version) \in DOMAIN call[p].fs0
    /\ fs = call[p].fs0

----------------------------------------------------------------------------
(* The claims about the functions applied on their own (SpecUnit)          *)

\* the call applied the function fn
AppliedFn(p, fn) == call[p].pc = "done" /\ call[p].fn = fn

\* the support matrix: the architectures provided for each OS
SupportMatrix ==
  { <<<<"l","i","n","u","x">>, a>> : a \in { <<"a","a","r","c","h","6","4">>, <<"p","o","w","e","r","p","c","6","4">>, <<"s","3","9","0","x">>, <<"x","8","6">>, <<"x","8","6","_","6","4">> } }
  \cup { <<<<"m","a","c","o","s">>, a>> : a \in { <<"a","a","r","c","h","6","4">>, <<"x","8","6">>, <<"x","8","6","_","6","4">> } }
  \cup { <<<<"w","i","n","d","o","w","s">>, a>> : a \in { <<"x","8","6">>, <<"x","8","6","_","6","4">> } }

\* the golden table: the spelling of an OS, the separator after it, the spelling of an
\* architecture of that OS for a version
OsSpelling(os) ==
  CASE os = <<"l","i","n","u","x">> -> <<"l","i","n","u","x">>
    [] os = <<"m","a","c","o","s">> -> <<"o","s","x">>
    [] os = <<"w","i","n","d","o","w","s">> -> <<"w","i","n">>

SeparatorOf(os) == IF os = <<"w","i","n","d","o","w","s">> THEN <<>> ELSE <<"-">>

ArchSpelling(version, os, arch) ==
  CASE os = <<"w","i","n","d","o","w","s">> -> (IF arch = <<"x","8","6">> THEN <<"3","2">> ELSE <<"6","4">>)
    [] os = <<"l","i","n","u","x">> /\ arch = <<"s","3","9","0","x">> ->
         (IF StartsWith(version, <<"3",".","1","0">>) \/ StartsWith(version, <<"3",".","1","1">>) THEN <<"s","3","9","0","x","_","6","4">>
          ELSE IF \/ StartsWith(version, <<"3",".","1","2">>) \/ StartsWith(version, <<"3",".","1","3">>)
                  \/ StartsWith(version, <<"3",".","1","4">>) \/ StartsWith(version, <<"3",".","1","5">>)
          THEN <<"s","3","9","0","x">>
          ELSE <<"s","3","9","0","_","6","4">>)
    [] os = <<"l","i","n","u","x">> /\ arch = <<"x","8","6">> ->
         (IF version = <<"3",".","0",".","0","-","b","e","t","a","-","4">> THEN <<"x","8","6","-","3","2">> ELSE <<"x","8","6","_","3","2">>)
    [] OTHER ->
         (CASE arch = <<"a","a","r","c","h","6","4">> -> <<"a","a","r","c","h","_","6","4">>
            [] arch = <<"p","o","w","e","r","p","c","6","4">> -> <<"p","p","c","l","e","_","6","4">>
            [] arch = <<"x","8","6">> -> <<"x","8","6","_","3","2">>
            [] arch = <<"x","8","6","_","6","4">> -> <<"x","8","6","_","6","4">>)

(* C13: for every version and every supported (OS, architecture) pair the  *)
(* asset name is exactly "protoc-" + normalized version + "-" + OS         *)
(* spelling + separator + architecture spelling of the golden table        *)
(* ((22.0, linux, x86) gives protoc-22.0-linux-x86_32; (21.12, windows,    *)
(* x86_64) gives protoc-21.12-win64).                                      *)
C13_GoldenTable ==
  \A p \in Callers :
    (AppliedFn(p, "get_protoc_asset_name") /\ <<OS, ARCH>> \in SupportMatrix) =>
      LET version == call[p].args.version IN
      /\ call[p].result.result =
           <<"Ok", <<"p","r","o","t","o","c","-">> \o prepare_asset_version(version) \o <<"-">> \o OsSpelling(OS)
                     \o SeparatorOf(OS) \o ArchSpelling(version, OS, ARCH)>>
      /\ call[p].args = [version |-> <<"2","2",".","0">>, os |-> <<"l","i","n","u","x">>, arch |-> <<"x","8","6">>] =>
           call[p].result.result[2] = <<"p","r","o","t","o","c","-","2","2",".","0","-","l","i","n","u","x","-","x","8","6","_","3","2">>
      /\ call[p].args = [version |-> <<"2","1",".","1","2">>, os |-> <<"w","i","n","d","o","w","s">>, arch |-> <<"x","8","6","_","6","4">>] =>
           call[p].result.result[2] = <<"p","r","o","t","o","c","-","2","1",".","1","2","-","w","i","n","6","4">>

\* a release candidate of the "s390x" era, named for linux on s390x
C13_Witness ==
  \E p \in Callers :
    /\ AppliedFn(p, "get_protoc_asset_name")
    /\ call[p].args = [version |-> <<"3",".","1","2",".","0","-","r","c","1">>, os |-> <<"l","i","n","u","x">>, arch |-> <<"s","3","9","0","x">>]
    /\ call[p].result.result = <<"Ok", <<"p","r","o","t","o","c","-","3",".","1","2",".","0","-","r","c","-","1","-","l","i","n","u","x","-","s","3","9","0","x">>>>

(* C14 as stated: the asset name is "protoc-" + normalized version + sep + *)
(* OS spelling + sep + architecture spelling, with the one separator value *)
(* of the OS in both positions.                                            *)
C14_AsStated ==
  \A p \in Callers :
    (AppliedFn(p, "get_protoc_asset_name") /\ call[p].result.result[1] = "Ok") =>
      LET version == call[p].args.version IN
      call[p].result.result[2] =
        <<"p","r","o","t","o","c","-">> \o prepare_asset_version(version) \o SeparatorOf(OS) \o asset_os(OS)
          \o SeparatorOf(OS) \o asset_arch(version, OS, ARCH)

(* C14: the asset name is "protoc-" + normalized version + "-" + OS        *)
(* spelling + sep + architecture spelling: a hyphen always follows the     *)
(* version, and the separator chosen per OS (empty for windows, a hyphen   *)
(* for the others) stands only between OS and architecture.                *)
C14_Concatenation ==
  \A p \in Callers :
    (AppliedFn(p, "get_protoc_asset_name") /\ call[p].result.result[1] = "Ok") =>
      LET version == call[p].args.version
          name == call[p].result.result[2]
          head == <<"p","r","o","t","o","c","-">> \o prepare_asset_version(version) \o <<"-">>
      IN  /\ StartsWith(name, head)
          /\ SubSeq(name, Len(head) + 1, Len(name)) =
               asset_os(OS) \o SeparatorOf(OS) \o asset_arch(version, OS, ARCH)

\* a windows name: a hyphen after the version, none between "win" and "64"
C14_Witness ==
  \E p \in Callers :
    /\ AppliedFn(p, "get_protoc_asset_name")
    /\ call[p].args = [version |-> <<"2","1",".","1","2">>, os |-> <<"w","i","n","d","o","w","s">>, arch |-> <<"x","8","6","_","6","4">>]
    /\ call[p].result.result = <<"Ok", <<"p","r","o","t","o","c","-","2","1",".","1","2","-","w","i","n","6","4">>>>

(* C15: for every version, a pair (OS, architecture) outside the support   *)
(* matrix (linux with five architectures, macos with three, windows with   *)
(* two) gives NotProvidedPlatform and never a name, and a pair inside it   *)
(* gives a name and never an error.                                        *)
C15_SupportMatrix ==
  /\ Cardinality({ pair \in SupportMatrix : pair[1] = <<"l","i","n","u","x">> }) = 5
  /\ Cardinality({ pair \in SupportMatrix : pair[1] = <<"w","i","n","d","o","w","s">> }) = 2
  /\ \A p \in Callers :
       AppliedFn(p, "get_protoc_asset_name") =>
         IF <<OS, ARCH>> \in SupportMatrix
         THEN call[p].result.result[1] = "Ok" /\ call[p].result.result[2] # <<>>
         ELSE call[p].result.result = NotProvidedPlatform

\* windows on aarch64 is not provided
C15_Witness ==
  \E p \in Callers :
    /\ AppliedFn(p, "get_protoc_asset_name")
    /\ OS = <<"w","i","n","d","o","w","s">> /\ ARCH = <<"a","a","r","c","h","6","4">>
    /\ call[p].result.result = NotProvidedPlatform

\* "rc" stands at position i of the version
RcAt(version, i) ==
  i + 1 <= Len(version) /\ version[i] = "r" /\ version[i + 1] = "c"

(* C16: prepare_asset_version gives a result for every version: a version *)
(* without "rc" unchanged; 3.7.0-rc.3 as 3.7.0-rc-3, 3.7.0rc2 as           *)
(* 3.7.0-rc-2, 3.7.0rc1 as 3.7.0-rc1, 3.2.0rc2 as 3.2.0rc2; every other    *)
(* version split at its first "rc" and rejoined as prefix + "rc-" + suffix *)
(* (22.0-rc3 gives 22.0-rc-3).                                             *)
C16_Normalizer ==
  \A p \in Callers :
    AppliedFn(p, "prepare_asset_version") =>
      LET version == call[p].args.version
          result == call[p].result.string
      IN  /\ IF \A i \in 1..Len(version) : ~RcAt(version, i) THEN result = version
             ELSE IF version = <<"3",".","7",".","0","-","r","c",".","3">> THEN result = <<"3",".","7",".","0","-","r","c","-","3">>
             ELSE IF version = <<"3",".","7",".","0","r","c","2">> THEN result = <<"3",".","7",".","0","-","r","c","-","2">>
             ELSE IF version = <<"3",".","7",".","0","r","c","1">> THEN result = <<"3",".","7",".","0","-","r","c","1">>
             ELSE IF version = <<"3",".","2",".","0","r","c","2">> THEN result = <<"3",".","2",".","0","r","c","2">>
             ELSE \E i \in 1..Len(version) :
                    /\ RcAt(version, i)
                    /\ \A j \in 1..(i - 1) : ~RcAt(version, j)
                    /\ result = SubSeq(version, 1, i - 1) \o <<"r","c","-">>
                                  \o SubSeq(version, i + 2, Len(version))
          /\ version = <<"2","2",".","0","-","r","c","3">> => result = <<"2","2",".","0","-","r","c","-","3">>

\* a release candidate normalized by the general rule
C16_Witness ==
  \E p \in Callers :
    /\ AppliedFn(p, "prepare_asset_version")
    /\ call[p].args = [version |-> <<"2","2",".","0","-","r","c","3">>]
    /\ call[p].result.string = <<"2","2",".","0","-","r","c","-","3">>

\* the legacy versions, whose archive has the binary in its root
LegacyVersions ==
  { <<"2",".","4",".","1">>, <<"2",".","5",".","0">>, <<"2",".","6",".","0">>, <<"2",".","6",".","1">>,
    <<"3",".","0",".","0","-","a","l","p","h","a","-","1">>, <<"3",".","0",".","0","-","a","l","p","h","a","-","2">>, <<"3",".","0",".","0","-","a","l","p","h","a","-","3">>,
    <<"3",".","0",".","0","-","b","e","t","a","-","1">>, <<"3",".","0",".","0","-","b","e","t","a","-","2">>, <<"3",".","0",".","0","-","b","e","t","a","-","3">>, <<"3",".","0",".","0","-","b","e","t","a","-","4">> }

\* the file name of the binary on the build's OS
BinaryName == IF OS = <<"w","i","n","d","o","w","s">> THEN <<"p","r","o","t","o","c",".","e","x","e">> ELSE <<"p","r","o","t","o","c">>

InDefectTable(required, returned) ==
  <<required, returned>> \in
    { <<<<"3",".","0",".","2">>, <<"3",".","0",".","0">>>>, <<<<"3",".","1","0",".","0","-","r","c","1">>, <<"3","0",".","1","0",".","0">>>>,
      <<<<"3",".","1","2",".","2">>, <<"3",".","1","2",".","1">>>>, <<<<"3",".","1","9",".","0","-","r","c","2">>, <<"3",".","1","9",".","0","-","r","c","1">>>>,
      <<<<"2","1",".","0","-","r","c","1">>, <<>>>>, <<<<"2","1",".","0","-","r","c","2">>, <<>>>> }

TableVersions ==
  { <<"3",".","0",".","2">>, <<"3",".","1","0",".","0","-","r","c","1">>, <<"3",".","1","2",".","2">>, <<"3",".","1","9",".","0","-","r","c","2">>, <<"2","1",".","0","-","r","c","1">>, <<"2","1",".","0","-","r","c","2">>,
    <<"3",".","2",".","0","r","c","2">>, <<"3",".","7",".","0","r","c","1">>, <<"3",".","7",".","0","r","c","2">>, <<"3",".","7",".","0","-","r","c",".","3">> }

InOldRcRange(required) ==
  \E prefix \in { <<"3",".","8",".">>, <<"3",".","9",".">>, <<"3",".","1","0",".">>, <<"3",".","1","1",".">>, <<"3",".","1","2",".">>, <<"3",".","1","3",".">> } :
    StartsWith(required, prefix)

IsDigit(c) == c \in {"0", "1", "2", "3", "4", "5", "6", "7", "8", "9"}

\* the number of digits of s from position i on
RECURSIVE DigitRun(_, _)
DigitRun(s, i) == IF i <= Len(s) /\ IsDigit(s[i]) THEN 1 + DigitRun(s, i + 1) ELSE 0

\* the version starts with exactly two numbers, the first below 100: "21.0", "22.0-rc3"
TwoPartPrefixBelow100(version) ==
  LET major == DigitRun(version, 1)
      minor == DigitRun(version, major + 2)
  IN  /\ major \in {1, 2}
      /\ major + 1 <= Len(version) /\ version[major + 1] = "."
      /\ minor >= 1
      /\ ~(major + 2 + minor <= Len(version) /\ version[major + 2 + minor] = ".")

(* C18 as stated: for every required version with a two-part numeric       *)
(* prefix below 100, not caught by an earlier rule, compare_versions       *)
(* matches exactly when the returned version is "3." + required.           *)
C18_AsStated ==
  \A p \in Callers :
    AppliedFn(p, "compare_versions") =>
      LET required == call[p].args.required
          returned == call[p].args.returned
      IN  (TwoPartPrefixBelow100(required) /\ ~InDefectTable(required, returned)) =>
            call[p].result.bool = (returned = <<"3",".">> \o required)

(* C18: for every required version that starts with "21.", not caught by   *)
(* an earlier rule, compare_versions matches exactly when the returned     *)
(* version is "3." + required (compare(21.0, 3.21.0) = true); every other  *)
(* version with a two-part numeric prefix below 100 matches exactly when   *)
(* the returned version is the required one.                               *)
C18_Rule4 ==
  \A p \in Callers :
    AppliedFn(p, "compare_versions") =>
      LET required == call[p].args.required
          returned == call[p].args.returned
      IN  /\ (StartsWith(required, <<"2","1",".">>) /\ ~InDefectTable(required, returned)) =>
               call[p].result.bool = (returned = <<"3",".">> \o required)
          /\ (TwoPartPrefixBelow100(required) /\ ~StartsWith(required, <<"2","1",".">>)) =>
               call[p].result.bool = (returned = required)
          /\ call[p].args = [required |-> <<"2","1",".","0">>, returned |-> <<"3",".","2","1",".","0">>] => call[p].result.bool

C18_Witness ==
  \E p \in Callers :
    /\ AppliedFn(p, "compare_versions")
    /\ call[p].args = [required |-> <<"2","1",".","1","2">>, returned |-> <<"3",".","2","1",".","1","2">>]
    /\ call[p].result.bool

(* C19 as stated: a required version containing "-rc" in the ranges 3.8.   *)
(* to 3.13. and not in the defect table matches exactly when the returned  *)
(* version is its part before "-rc"; a release candidate outside those     *)
(* ranges and the tables matches only the identical string; 21.0-rc1 and   *)
(* 21.0-rc2 accept an empty report.                                        *)
C19_AsStated ==
  \A p \in Callers :
    AppliedFn(p, "compare_versions") =>
      LET required == call[p].args.required
          returned == call[p].args.returned
      IN  /\ ( /\ Contains(required, <<"-","r","c">>) /\ InOldRcRange(required)
               /\ required \notin TableVersions ) =>
               call[p].result.bool = (returned = SplitOnce(required, <<"-","r","c">>)[1])
          /\ ( /\ Contains(required, <<"r","c">>) /\ ~InOldRcRange(required)
               /\ required \notin TableVersions ) =>
               call[p].result.bool = (returned = required)
          /\ (required \in { <<"2","1",".","0","-","r","c","1">>, <<"2","1",".","0","-","r","c","2">> } /\ returned = <<>>) =>
               call[p].result.bool

(* C19: a required version containing "-rc" in the ranges 3.8. to 3.13.    *)
(* and not in the defect table matches exactly when the returned version   *)
(* is its part before "-rc" (compare(3.13.0-rc3, 3.13.0) = true); a        *)
(* release candidate outside those ranges and the tables matches only the  *)
(* identical string (compare(3.14.0-rc2, 3.14.0) = false), unless it       *)
(* starts with "21.", when it matches only "3." + itself; 21.0-rc1 and     *)
(* 21.0-rc2 accept an empty report.                                        *)
C19_ReleaseCandidates ==
  \A p \in Callers :
    AppliedFn(p, "compare_versions") =>
      LET required == call[p].args.required
          returned == call[p].args.returned
      IN  /\ ( /\ Contains(required, <<"-","r","c">>) /\ InOldRcRange(required)
               /\ required \notin TableVersions ) =>
               call[p].result.bool = (returned = SplitOnce(required, <<"-","r","c">>)[1])
          /\ ( /\ Contains(required, <<"r","c">>) /\ ~InOldRcRange(required)
               /\ required \notin TableVersions ) =>
               call[p].result.bool = (returned = IF StartsWith(required, <<"2","1",".">>)
                                            THEN <<"3",".">> \o required ELSE required)
          /\ (required \in { <<"2","1",".","0","-","r","c","1">>, <<"2","1",".","0","-","r","c","2">> } /\ returned = <<>>) =>
               call[p].result.bool
          /\ call[p].args = [required |-> <<"3",".","1","3",".","0","-","r","c","3">>, returned |-> <<"3",".","1","3",".","0">>] => call[p].result.bool
          /\ call[p].args = [required |-> <<"3",".","1","4",".","0","-","r","c","2">>, returned |-> <<"3",".","1","4",".","0">>] => ~call[p].result.bool

\* the base version is refused for a release candidate after the old range
C19_Witness ==
  \E p \in Callers :
    /\ AppliedFn(p, "compare_versions")
    /\ call[p].args = [required |-> <<"3",".","1","4",".","0","-","r","c","2">>, returned |-> <<"3",".","1","4",".","0">>]
    /\ ~call[p].result.bool

====
